---- MODULE Spec2Model ----
(***************************************************************************)
(* Analytics core of TradLyte-dp: the backtesting state machine            *)
(* (backtester.py), the backward as-of alignment and the multi-timeframe   *)
(* executor (executor.py), and the strategy step framework                 *)
(* (strategies/base.py, strategies/builder.py, models.py).                 *)
(*                                                                         *)
(* Units.  Close prices are whole dollars.  Position prices (entry_price,  *)
(* exit_price, pnl) are kept in 1/100 of a dollar so that a slippage of    *)
(* s percent is exact: entry_price = close * (100 + s).  Percentages       *)
(* (stop_loss_pct, ...) are whole percents; None and 0.0 are both falsy in *)
(* the Python guards and are both written 0.  Arithmetic is exact (the     *)
(* float rounding of the Python code is not modelled).                     *)
(*                                                                         *)
(* Capital.  capital is kept as the exact decomposition                    *)
(*   initial_capital + (sum of the rescaled P&L of the first `realized`    *)
(*   ledger entries) - fees * commission                                   *)
(* i.e. the pair [fees, realized]; two equal pairs are equal amounts.      *)
(***************************************************************************)
EXTENDS Integers, Sequences, FiniteSets, TLC

VARIABLES
    \* ---- Backtester.run (backtester.py) ----
    backtester,        \* the Backtester object: [slippage]
    data,              \* the annotated series handed to run()
    stop_loss_pct, take_profit_pct, trailing_stop_pct, max_holding_days,
    pc,                \* position of run(): "start", "loop", "done" ("idle" elsewhere)
    row_idx,           \* index of the next row of the for loop
    open_position,     \* <<>> (None) or <<Position>>
    positions,         \* the trade ledger
    capital, equity_curve,
    result,            \* <<>> or <<BacktestResult>>
    returned,          \* what the calls of run() on this Backtester have returned so far
    \* ---- MultiTimeframeExecutor.align_timeframe_signals (executor.py) ----
    base_df,             \* the base-timeframe frame
    higher_timeframe_df, \* the higher-timeframe frame
    signal_column,       \* the column to align
    base_with_signals,   \* <<>> or <<the frame returned>>
    \* ---- strategies (strategies/base.py, builder.py) and the executor's calls ----
    strategy,            \* the strategy object constructed, kind "none" before
    call,                \* the call made on it and its arguments
    outcome,             \* what the call returned or raised
    \* ---- DailyScanner (scanner.py) ----
    scan_call,           \* the scan called, its arguments and its position
    scan_acc,            \* the accumulators of _score_multi_timeframe_signal
    scan_out,            \* what the scan returned or raised
    rank_call,           \* the arguments of rank_signals
    ranked,              \* the list rank_signals returned
    \* ---- resample_ohlcv (inputs.py) ----
    resample_call,       \* the arguments of resample_ohlcv
    resample_out,        \* <<>> or <<the frame returned>>
    \* ---- setup steps on indicator columns (momentum_strategies.py, builder.py) ----
    setup_call,          \* the setup called and the bars of its frame
    setup_df             \* <<>> or <<the rows returned, with setup_valid>>

btvars == <<backtester, data, stop_loss_pct, take_profit_pct, trailing_stop_pct,
            max_holding_days, pc, row_idx, open_position, positions, capital,
            equity_curve, result, returned>>

alvars == <<base_df, higher_timeframe_df, signal_column, base_with_signals>>

stvars == <<strategy, call, outcome>>

scvars == <<scan_call, scan_acc, scan_out>>

rkvars == <<rank_call, ranked>>

rsvars == <<resample_call, resample_out>>

suvars == <<setup_call, setup_df>>

vars == <<btvars, alvars, stvars, scvars, rkvars, rsvars, suvars>>

\* ---------------------------------------------------------------- bounds
MaxBars == 3
MaxDate == 4
MaxRows == 2
MaxTimeframes == 3
MaxSymbols == 2
MaxStrategies == 2
MaxSignals == 3
MaxTopK == 3
MaxRuns == 2

\* Close prices of the bars (dollars).
Prices == {94, 100, 111}
None == "None"

\* ------------------------------------------------------------ Position
\* Position(entry_date=..., entry_price=...): every exit field is None.
NewPosition(entry_date, entry_price) ==
    [entry_date |-> entry_date, entry_price |-> entry_price, closed |-> FALSE]

\* Position.is_open: exit_date is None.
IsOpen(p) == ~p.closed

\* Position.close: sets all six exit fields in one call.
ClosePosition(p, exit_date, exit_price, reason) ==
    [entry_date   |-> p.entry_date,
     entry_price  |-> p.entry_price,
     closed       |-> TRUE,
     exit_date    |-> exit_date,
     exit_price   |-> exit_price,
     pnl          |-> exit_price - p.entry_price,
     pnl_pct      |-> [num |-> exit_price - p.entry_price, den |-> p.entry_price],
     holding_days |-> exit_date - p.entry_date,
     exit_reason  |-> reason]

\* -------------------------------------------------------- data.sort('date')
RECURSIVE InsertByDate(_, _)
InsertByDate(row, s) ==
    IF s = <<>> THEN <<row>>
    ELSE IF row.date < Head(s).date THEN <<row>> \o s
    ELSE <<Head(s)>> \o InsertByDate(row, Tail(s))

RECURSIVE SortByDate(_)
SortByDate(s) ==
    IF s = <<>> THEN <<>>
    ELSE InsertByDate(s[Len(s)], SortByDate(SubSeq(s, 1, Len(s) - 1)))

\* ------------------------------------------------------------------ frames
\* A DataFrame is [cols, rows]: cols is the set of its column names besides 'date',
\* and each row is [date, cells] with cells a function from cols to values.  Values
\* are strings; "null" is polars' null.
EmptyFrame == [cols |-> {}, rows |-> <<>>]

HasColumn(df, col) == col \in df.cols

Dates(df) == [k \in 1..Len(df.rows) |-> df.rows[k].date]

\* df.select(['date', col]).sort('date')
SelectSorted(df, col) ==
    SortByDate([k \in 1..Len(df.rows) |->
                   [date |-> df.rows[k].date, value |-> df.rows[k].cells[col]]])

\* C5 mutant: the match excludes a right row dated on the left date itself.
RECURSIVE AsofBackwardStrict(_, _, _)
AsofBackwardStrict(left_date, right, found) ==
    IF right = <<>> \/ Head(right).date >= left_date THEN found
    ELSE AsofBackwardStrict(left_date, Tail(right), Head(right).value)

\* join_asof(strategy='backward') for one left key: scan the sorted right rows and keep
\* the last one whose date is not after the left date; null when there is none.
RECURSIVE AsofBackward(_, _, _)
AsofBackward(left_date, right, found) ==
    IF right = <<>> \/ Head(right).date > left_date THEN found
    ELSE AsofBackward(left_date, Tail(right), Head(right).value)

\* with_columns / join: the frame with column col set to values[k] on row k.
WithColumn(df, col, values) ==
    [cols |-> df.cols \cup {col},
     rows |-> [k \in 1..Len(df.rows) |->
                 [date  |-> df.rows[k].date,
                  cells |-> [c \in df.cols \cup {col} |->
                               IF c = col THEN values[k] ELSE df.rows[k].cells[c]]]]]

\* ------------------------------------------------ align_timeframe_signals
\* A right column whose name the left frame already has is suffixed by polars.
JoinedName(df, col) == IF HasColumn(df, col) THEN col \o "_right" ELSE col

AlignTimeframeSignals(base, higher, col) ==
    IF ~HasColumn(higher, col) THEN base
    ELSE LET right == SelectSorted(higher, col)
         IN WithColumn(base, JoinedName(base, col),
                       [k \in 1..Len(base.rows) |->
                           AsofBackward(base.rows[k].date, right, "null")])

\* ------------------------------------------------- _check_exit_conditions
\* current_price <= position.entry_price * (1 - stop_loss_pct)
StopLossHit(position, current_price) ==
    /\ stop_loss_pct # 0
    /\ current_price * 100 * 100 <= position.entry_price * (100 - stop_loss_pct)

\* current_price >= position.entry_price * (1 + take_profit_pct)
TakeProfitHit(position, current_price) ==
    /\ take_profit_pct # 0
    /\ current_price * 100 * 100 >= position.entry_price * (100 + take_profit_pct)

\* C26 mutant: the stop trails the entry price.
TrailingStopHitBelowEntry(position, current_price) ==
    /\ trailing_stop_pct # 0
    /\ current_price * 100 * 100 < position.entry_price * (100 - trailing_stop_pct)

\* current_price < current_price * (1 - trailing_stop_pct)
TrailingStopHit(position, current_price) ==
    /\ trailing_stop_pct # 0
    /\ current_price * 100 < current_price * (100 - trailing_stop_pct)

\* C19 mutant: the holding period has to exceed max_holding_days.
TimeBasedHitWhenExceeded(position, current_date) ==
    /\ max_holding_days # 0
    /\ current_date - position.entry_date > max_holding_days

\* (current_date - position.entry_date).days >= max_holding_days
TimeBasedHit(position, current_date) ==
    /\ max_holding_days # 0
    /\ current_date - position.entry_date >= max_holding_days

\* row.get('exit_signal') == 'SELL'
ExitSignalHit(row) == row.exit_signal = "SELL"

\* C1 mutant: the strategy's exit signal is consulted before the other conditions.
CheckExitConditionsSignalFirst(position, current_date, current_price, row) ==
    IF ExitSignalHit(row) THEN <<TRUE, "signal">>
    ELSE IF StopLossHit(position, current_price) THEN <<TRUE, "stop_loss">>
    ELSE IF TakeProfitHit(position, current_price) THEN <<TRUE, "take_profit">>
    ELSE IF TrailingStopHit(position, current_price) THEN <<TRUE, "trailing_stop">>
    ELSE IF TimeBasedHit(position, current_date) THEN <<TRUE, "time_based">>
    ELSE <<FALSE, "">>

\* Returns the pair (should_exit, exit_reason).
CheckExitConditions(position, current_date, current_price, row) ==
    IF StopLossHit(position, current_price) THEN <<TRUE, "stop_loss">>
    ELSE IF TakeProfitHit(position, current_price) THEN <<TRUE, "take_profit">>
    ELSE IF TrailingStopHit(position, current_price) THEN <<TRUE, "trailing_stop">>
    ELSE IF TimeBasedHit(position, current_date) THEN <<TRUE, "time_based">>
    ELSE IF ExitSignalHit(row) THEN <<TRUE, "signal">>
    ELSE <<FALSE, "">>

\* current_price * (1 - self.slippage) if self.slippage > 0 else current_price
ExitPrice(current_price) ==
    IF backtester.slippage > 0 THEN current_price * (100 - backtester.slippage)
    ELSE current_price * 100

\* current_price * (1 + self.slippage) if self.slippage > 0 else current_price
EntryPrice(current_price) ==
    IF backtester.slippage > 0 THEN current_price * (100 + backtester.slippage)
    ELSE current_price * 100

\* capital += pnl - commission * n   (pnl = the rescaled P&L of the trade just closed)
Realize(cap, n) == [fees |-> cap.fees + n, realized |-> cap.realized + 1]

\* capital -= self.commission
Charge(cap) == [fees |-> cap.fees + 1, realized |-> cap.realized]

InitialCapital == [fees |-> 0, realized |-> 0]

\* --------------------------------------------------------- _calculate_metrics
\* [p for p in positions if p.pnl and p.pnl > 0]
IsWinning(p) == p.pnl # 0 /\ p.pnl > 0
WinningCount(ps) == Cardinality({k \in 1..Len(ps) : IsWinning(ps[k])})

\* C30 mutant: a trade of pnl 0 is a losing trade.
IsLosingOrFlat(p) == p.pnl <= 0

\* [p for p in positions if p.pnl and p.pnl <= 0]
IsLosing(p) == p.pnl # 0 /\ p.pnl <= 0
LosingCount(ps) == Cardinality({k \in 1..Len(ps) : IsLosing(ps[k])})

CalculateMetrics(ps, curve, final_capital) ==
    IF ps = <<>> THEN
        [total_return    |-> InitialCapital,
         total_trades    |-> 0,
         winning_trades  |-> 0,
         losing_trades   |-> 0,
         win_rate        |-> [num |-> 0, den |-> 1],
         equity_curve    |-> curve,
         trades          |-> ps,
         final_capital   |-> final_capital]
    ELSE
        [total_return    |-> final_capital,
         total_trades    |-> Len(ps),
         winning_trades  |-> WinningCount(ps),
         losing_trades   |-> LosingCount(ps),
         win_rate        |-> [num |-> WinningCount(ps), den |-> Len(ps)],
         equity_curve    |-> curve,
         trades          |-> ps,
         final_capital   |-> final_capital]

\* ------------------------------------------------------------ the inputs
Bars == [close : Prices, signal : {"BUY", "HOLD"}, exit_signal : {"SELL", None}]

\* A series of n bars on consecutive days, given in ascending or descending order.
Dated(bars, descending) ==
    [k \in 1..Len(bars) |->
        [date        |-> IF descending THEN Len(bars) + 1 - k ELSE k,
         close       |-> bars[k].close,
         signal      |-> bars[k].signal,
         exit_signal |-> bars[k].exit_signal]]

BarSeqs == UNION {[1..n -> Bars] : n \in 0..MaxBars}

\* ------------------------------------------------- strategies (models.py)
Roles == <<"setup", "trigger", "exit">>

\* The column each role is to publish.
RequiredColumn == [setup |-> "setup_valid", trigger |-> "signal", exit |-> "exit_signal"]

TIMEFRAMES == {"1d", "3d"}

\* The Literal sets of the three component classes.
SetupTypes == {"INDICATOR_THRESHOLD", "NONE"}

TriggerTypes == {"CANDLE_PATTERN", "PRICE_CROSSOVER", "INDICATOR_CROSSOVER"}

ExitTypes == {"CONDITIONAL_OR_FIXED", "STOP_LOSS_PCT", "TAKE_PROFIT_PCT",
              "TRAILING_STOP_PCT", "TIME_BASED", "INDICATOR_CROSS"}

\* components: Dict[str, Union[SetupComponentConfig, TriggerComponentConfig,
\* ExitComponentConfig]]: a value is validated against the classes of the Union, whatever
\* its key; the type tags of the three classes are disjoint, so at most one accepts it.
ComponentClass(raw) ==
    IF raw.type \in SetupTypes THEN "SetupComponentConfig"
    ELSE IF raw.type \in TriggerTypes THEN "TriggerComponentConfig"
    ELSE IF raw.type \in ExitTypes THEN "ExitComponentConfig"
    ELSE "ValidationError"

\* RequirementsStrategyConfig(**config_dict): the validated components, or one marked
\* invalid.
ValidConfig(config_dict) ==
    \A key \in DOMAIN config_dict.components :
        ComponentClass(config_dict.components[key]) # "ValidationError"

StepConfig(step_name, timeframe, enabled) ==
    [step_name |-> step_name, timeframe |-> timeframe, enabled |-> enabled]

\* ----------------------------------------------------- BaseStrategy.__init__
\* An optional value is <<>> (None) or <<v>>.  A strategy object carries the fields of
\* every class; those a constructor never assigns are absent (has_setup_config = FALSE).
NoComponents == [key \in {} |-> 0]

BlankStrategy ==
    [kind |-> "none", steps |-> <<>>, _use_expandable_mode |-> FALSE,
     _use_requirements_format |-> FALSE, has_setup_config |-> FALSE,
     setup_type |-> "", pattern |-> "", components |-> NoComponents, publishes |-> {}]

\* self.steps = steps; self._use_expandable_mode = steps is not None and len(steps) > 0
BaseStrategyInit(kind, steps) ==
    [BlankStrategy EXCEPT !.kind = kind, !.steps = steps,
                          !._use_expandable_mode = (steps # <<>> /\ Len(steps[1]) > 0)]

\* A library strategy: class X(BaseStrategy) with super().__init__(name, description).
LibraryStrategy == BaseStrategyInit("LibraryStrategy", <<>>)

\* A subclass outside the repository: it passes steps (or none) to BaseStrategy.__init__
\* and its setup/trigger/exit/execute_step publish the columns in publishes.
UserStrategy(steps, publishes) ==
    [BaseStrategyInit("UserStrategy", steps) EXCEPT !.publishes = publishes]

\* ------------------------------------------------ CompositeStrategy.__init__
\* CompositeStrategy(config=...): lines 44-51.
CompositeFromConfig(config) ==
    [BaseStrategyInit("CompositeStrategy", <<>>) EXCEPT
        !.has_setup_config = TRUE, !.setup_type = config.setup_type,
        !.pattern = config.pattern]

\* The steps list of lines 58-77: one StepConfig per component key present, in the
\* order setup, trigger, exit.
RECURSIVE StepsFor(_, _)
StepsFor(components, k) ==
    IF k > Len(Roles) THEN <<>>
    ELSE (IF Roles[k] \in DOMAIN components
            THEN <<StepConfig(Roles[k], components[Roles[k]].timeframe, TRUE)>>
            ELSE <<>>) \o StepsFor(components, k + 1)

\* CompositeStrategy(requirements_config=...): lines 52-77.  super().__init__ runs with
\* no steps; self.steps is assigned afterwards and nothing else is.
CompositeFromRequirements(requirements_config) ==
    [BaseStrategyInit("CompositeStrategy", <<>>) EXCEPT
        !._use_requirements_format = TRUE,
        !.components = requirements_config.components,
        !.steps = <<StepsFor(requirements_config.components, 1)>>]

\* ------------------------------------------------ step results and frames
\* The result of a call that may raise: the frame it returns, or the error it raises,
\* and the methods it invoked on the strategy, in order.
Returned(df, trace) == [ok |-> TRUE, error |-> "", df |-> df, trace |-> trace]

Raised(error, trace) == [ok |-> FALSE, error |-> error, df |-> EmptyFrame, trace |-> trace]

Called(via, name) == [via |-> via, name |-> name]

Cell(df, k, col) == df.rows[k].cells[col]

HasRows(df) == Len(df.rows) > 0

\* pl.when(mask & condition): taken on the rows where both are true (a null is not).
BothTrue(mask, condition) == mask = "true" /\ condition = "true"

\* ------------------------------------------ library strategies (legacy steps)
\* setup(): setup_valid is the strategy's trend comparison on the row.
LibrarySetup(df) ==
    Returned(WithColumn(df, "setup_valid",
                        [k \in 1..Len(df.rows) |-> Cell(df, k, "setup_cond")]), <<>>)

\* trigger(): pl.when(pl.col('setup_valid') & condition).then('BUY').otherwise('HOLD')
LibraryTrigger(df) ==
    IF ~HasColumn(df, "setup_valid") THEN Raised("ColumnNotFoundError", <<>>)
    ELSE Returned(WithColumn(df, "signal",
                      [k \in 1..Len(df.rows) |->
                          IF BothTrue(Cell(df, k, "setup_valid"), Cell(df, k, "trigger_cond"))
                          THEN "BUY" ELSE "HOLD"]), <<>>)

\* exit(): pl.when(condition).then('SELL').otherwise(None)
LibraryExit(df) ==
    Returned(WithColumn(df, "exit_signal",
                 [k \in 1..Len(df.rows) |->
                     IF Cell(df, k, "exit_cond") = "true" THEN "SELL" ELSE "null"]), <<>>)

\* ------------------------------------- CompositeStrategy, legacy configuration
\* setup(): reads self.setup_config, which only the legacy constructor assigns.
CompositeSetup(s, df) ==
    IF ~s.has_setup_config THEN Raised("AttributeError", <<>>)
    ELSE IF s.setup_type = "NONE"
    THEN Returned(WithColumn(df, "setup_valid", [k \in 1..Len(df.rows) |-> "true"]), <<>>)
    ELSE Returned(WithColumn(df, "setup_valid",
                             [k \in 1..Len(df.rows) |-> Cell(df, k, "setup_cond")]), <<>>)

\* trigger() with type CANDLE_PATTERN: signal starts as HOLD; the two engulfing patterns
\* set BUY / SELL under the setup mask, any other pattern leaves HOLD.
CompositeTrigger(s, df) ==
    IF ~s.has_setup_config THEN Raised("AttributeError", <<>>)
    ELSE IF ~HasColumn(df, "setup_valid") /\ s.pattern \in {"ENGULFING_BULLISH", "ENGULFING_BEARISH"}
    THEN Raised("ColumnNotFoundError", <<>>)
    ELSE Returned(WithColumn(df, "signal",
                      [k \in 1..Len(df.rows) |->
                          IF /\ s.pattern \in {"ENGULFING_BULLISH", "ENGULFING_BEARISH"}
                             /\ BothTrue(Cell(df, k, "setup_valid"), Cell(df, k, "trigger_cond"))
                          THEN (IF s.pattern = "ENGULFING_BULLISH" THEN "BUY" ELSE "SELL")
                          ELSE "HOLD"]), <<>>)

\* exit(): exit_signal is initialised to null; no exit type of the legacy format sets it.
CompositeExit(s, df) ==
    IF ~s.has_setup_config THEN Raised("AttributeError", <<>>)
    ELSE Returned(WithColumn(df, "exit_signal", [k \in 1..Len(df.rows) |-> "null"]), <<>>)

\* ------------------------------- CompositeStrategy, requirements configuration
\* _execute_setup_requirements and _setup_indicator_threshold.
ExecuteSetupRequirements(setup, df) ==
    IF setup.type = "NONE"
    THEN Returned(WithColumn(df, "setup_valid", [k \in 1..Len(df.rows) |-> "true"]), <<>>)
    ELSE IF setup.type = "INDICATOR_THRESHOLD"
    THEN IF setup.indicator = None THEN Raised("AttributeError", <<>>)
         ELSE IF setup.indicator \notin {"RSI", "SMA", "EMA"}
         THEN Raised("ValueError: Unsupported indicator for threshold", <<>>)
         ELSE Returned(WithColumn(df, "setup_valid",
                                  [k \in 1..Len(df.rows) |-> Cell(df, k, "setup_cond")]), <<>>)
    ELSE Raised("ValueError: Unknown setup type", <<>>)

CandlePatterns == {"BULLISH_ENGULFING", "ENGULFING_BULLISH", "BEARISH_ENGULFING",
                   "ENGULFING_BEARISH", "HAMMER", "SHOOTING_STAR", "DOJI", "MORNING_STAR",
                   "EVENING_STAR", "GREEN_CANDLE", "RED_CANDLE"}

\* 'BUY' if 'BULLISH' in pattern or pattern in [HAMMER, MORNING_STAR, GREEN_CANDLE]
SignalValue(pattern) ==
    IF pattern \in {"BULLISH_ENGULFING", "ENGULFING_BULLISH", "HAMMER", "MORNING_STAR",
                    "GREEN_CANDLE"}
    THEN "BUY" ELSE "SELL"

\* setup_mask = pl.col('setup_valid') if 'setup_valid' in df.columns else pl.lit(True)
SetupMask(df, k) == IF HasColumn(df, "setup_valid") THEN Cell(df, k, "setup_valid") ELSE "true"

\* The signal column before the trigger acts: HOLD unless the frame already has one.
PriorSignal(df, k) == IF HasColumn(df, "signal") THEN Cell(df, k, "signal") ELSE "HOLD"

\* pl.when(setup_mask & condition).then(signal_value).otherwise(pl.col('signal'))
TriggerColumn(df, signal_value) ==
    WithColumn(df, "signal",
        [k \in 1..Len(df.rows) |->
            IF BothTrue(SetupMask(df, k), Cell(df, k, "trigger_cond"))
            THEN signal_value ELSE PriorSignal(df, k)])

\* _execute_trigger_requirements and the three _trigger_*_requirements.
ExecuteTriggerRequirements(trigger, df) ==
    IF trigger.type = "CANDLE_PATTERN"
    THEN IF trigger.pattern \notin CandlePatterns
         THEN Raised("ValueError: Unknown candle pattern", <<>>)
         ELSE Returned(TriggerColumn(df, SignalValue(trigger.pattern)), <<>>)
    ELSE IF trigger.type = "PRICE_CROSSOVER"
    THEN IF trigger.indicator = None
         THEN Raised("ValueError: Either price_level or indicator must be specified", <<>>)
         ELSE Returned(TriggerColumn(df, IF trigger.direction = "ABOVE" THEN "BUY" ELSE "SELL"),
                       <<>>)
    ELSE IF trigger.type = "INDICATOR_CROSSOVER"
    THEN IF trigger.crossover_type = "GOLDEN_CROSS" THEN Returned(TriggerColumn(df, "BUY"), <<>>)
         ELSE IF trigger.crossover_type = "DEATH_CROSS"
         THEN Returned(TriggerColumn(df, "SELL"), <<>>)
         ELSE Raised("ValueError: Unknown crossover type", <<>>)
    ELSE Raised("ValueError: Unknown trigger type", <<>>)

\* _execute_exit_requirements: CONDITIONAL_OR_FIXED and INDICATOR_CROSS publish
\* exit_signal; the percentage exits publish a price column computed from 'signal';
\* TIME_BASED returns the frame as it is.
ExecuteExitRequirements(exit, df) ==
    IF exit.type \in {"CONDITIONAL_OR_FIXED", "INDICATOR_CROSS"}
    THEN Returned(WithColumn(df, "exit_signal",
                      [k \in 1..Len(df.rows) |->
                          IF Cell(df, k, "exit_cond") = "true" THEN "SELL"
                          ELSE IF exit.type = "CONDITIONAL_OR_FIXED" /\ HasColumn(df, "exit_signal")
                          THEN Cell(df, k, "exit_signal") ELSE "null"]), <<>>)
    ELSE IF exit.type \in {"STOP_LOSS_PCT", "TAKE_PROFIT_PCT"}
    THEN IF ~HasColumn(df, "signal") THEN Raised("ColumnNotFoundError", <<>>)
         ELSE Returned(WithColumn(df, IF exit.type = "STOP_LOSS_PCT" THEN "stop_loss_price"
                                      ELSE "take_profit_price",
                                  [k \in 1..Len(df.rows) |-> "null"]), <<>>)
    ELSE IF exit.type = "TRAILING_STOP_PCT"
    THEN Returned(WithColumn(df, "trailing_stop_price", [k \in 1..Len(df.rows) |-> "null"]), <<>>)
    ELSE IF exit.type = "TIME_BASED" THEN Returned(df, <<>>)
    ELSE Raised("ValueError: Unknown exit type", <<>>)

\* CompositeStrategy.execute_step
CompositeExecuteStep(s, step, df) ==
    IF ~s._use_requirements_format
    THEN Raised("ValueError: execute_step() only works with requirements format", <<>>)
    ELSE IF step.step_name \notin DOMAIN s.components THEN Returned(df, <<>>)
    ELSE IF step.step_name = "setup"
    THEN ExecuteSetupRequirements(s.components[step.step_name], df)
    ELSE IF step.step_name = "trigger"
    THEN ExecuteTriggerRequirements(s.components[step.step_name], df)
    ELSE IF step.step_name = "exit"
    THEN ExecuteExitRequirements(s.components[step.step_name], df)
    ELSE Raised("ValueError: Unknown step name", <<>>)

\* ------------------------------------------------ a subclass outside the repository
\* What a user-written step named role does: it publishes the role's column if the
\* subclass was written to, and returns the frame as it is otherwise.
UserStep(s, role, df) ==
    IF RequiredColumn[role] \notin s.publishes THEN Returned(df, <<>>)
    ELSE IF role = "setup" THEN LibrarySetup(df)
    ELSE IF role = "trigger"
    THEN Returned(WithColumn(df, "signal",
                      [k \in 1..Len(df.rows) |->
                          IF BothTrue(SetupMask(df, k), Cell(df, k, "trigger_cond"))
                          THEN "BUY" ELSE "HOLD"]), <<>>)
    ELSE LibraryExit(df)

\* --------------------------------------------------- dispatch on the class
Setup(s, df) ==
    IF s.kind = "LibraryStrategy" THEN LibrarySetup(df)
    ELSE IF s.kind = "CompositeStrategy" THEN CompositeSetup(s, df)
    ELSE UserStep(s, "setup", df)

Trigger(s, df) ==
    IF s.kind = "LibraryStrategy" THEN LibraryTrigger(df)
    ELSE IF s.kind = "CompositeStrategy" THEN CompositeTrigger(s, df)
    ELSE UserStep(s, "trigger", df)

Exit(s, df) ==
    IF s.kind = "LibraryStrategy" THEN LibraryExit(df)
    ELSE IF s.kind = "CompositeStrategy" THEN CompositeExit(s, df)
    ELSE UserStep(s, "exit", df)

\* execute_step: BaseStrategy's raises NotImplementedError; CompositeStrategy and a
\* step-based subclass override it.
ExecuteStepOf(s, step, df) ==
    IF s.kind = "CompositeStrategy" THEN CompositeExecuteStep(s, step, df)
    ELSE IF s.kind = "UserStrategy" /\ s._use_expandable_mode
    THEN UserStep(s, step.step_name, df)
    ELSE Raised("NotImplementedError", <<>>)

\* ----------------------------------------------------------- BaseStrategy.run
\* _run_legacy
RunLegacy(s, df) ==
    LET r1 == Setup(s, df)
        t1 == <<Called("legacy", "setup")>>
    IN IF ~r1.ok THEN Raised(r1.error, t1)
       ELSE IF ~HasColumn(r1.df, "setup_valid")
       THEN Raised("ValueError: setup() must add 'setup_valid' column", t1)
       ELSE LET r2 == Trigger(s, r1.df)
                t2 == Append(t1, Called("legacy", "trigger"))
            IN IF ~r2.ok THEN Raised(r2.error, t2)
               ELSE IF ~HasColumn(r2.df, "signal")
               THEN Raised("ValueError: trigger() must add 'signal' column", t2)
               ELSE LET r3 == Exit(s, r2.df)
                        t3 == Append(t2, Called("legacy", "exit"))
                    IN IF ~r3.ok THEN Raised(r3.error, t3) ELSE Returned(r3.df, t3)

\* The loop of _run_expandable from step k on.
RECURSIVE RunSteps(_, _, _, _)
RunSteps(s, k, df, trace) ==
    IF k > Len(s.steps[1]) THEN Returned(df, trace)
    ELSE LET step == s.steps[1][k] IN
         IF ~step.enabled THEN RunSteps(s, k + 1, df, trace)
         ELSE LET r == ExecuteStepOf(s, step, df)
                  t == Append(trace, Called("execute_step", step.step_name))
              IN IF ~r.ok THEN Raised(r.error, t) ELSE RunSteps(s, k + 1, r.df, t)

\* _run_expandable
RunExpandable(s, df) ==
    IF s.steps = <<>> \/ s.steps[1] = <<>>
    THEN Raised("ValueError: No steps defined for expandable mode", <<>>)
    ELSE RunSteps(s, 1, df, <<>>)

\* run
Run(s, df) == IF s._use_expandable_mode THEN RunExpandable(s, df) ELSE RunLegacy(s, df)

\* -------------------------------------------------- MultiTimeframeExecutor
\* load_multi_timeframe_data: a timeframe is stored when its load raised nothing and
\* returned rows; source[tf] is what the data store does for it.
LoadMultiTimeframeData(timeframes, source) == {tf \in timeframes : source[tf] = "rows"}

\* new_columns = [col for col in step_df.columns if col not in base_df.columns], each
\* aligned onto base_df in turn.
RECURSIVE AlignNewColumns(_, _, _)
AlignNewColumns(base, step_df, new_columns) ==
    IF new_columns = {} THEN base
    ELSE LET col == CHOOSE c \in new_columns : TRUE
         IN AlignNewColumns(AlignTimeframeSignals(base, step_df, col), step_df,
                            new_columns \ {col})

\* C24 mutant: a step on the base timeframe runs on the series built so far.
RECURSIVE ExecuteStepsOnBase(_, _, _, _, _, _, _)
ExecuteStepsOnBase(s, k, loaded, frames, base_timeframe, base, trace) ==
    IF k > Len(s.steps[1]) THEN Returned(base, trace)
    ELSE LET step == s.steps[1][k] IN
         IF ~step.enabled \/ step.timeframe \notin loaded
         THEN ExecuteStepsOnBase(s, k + 1, loaded, frames, base_timeframe, base, trace)
         ELSE LET r == ExecuteStepOf(s, step, IF step.timeframe = base_timeframe THEN base
                                              ELSE frames[step.timeframe])
                  t == Append(trace, Called("execute_step", step.step_name))
              IN IF ~r.ok THEN Raised(r.error, t)
                 ELSE IF step.timeframe # base_timeframe
                 THEN ExecuteStepsOnBase(s, k + 1, loaded, frames, base_timeframe,
                                         AlignNewColumns(base, r.df, r.df.cols \ base.cols), t)
                 ELSE ExecuteStepsOnBase(s, k + 1, loaded, frames, base_timeframe, r.df, t)

\* The loop of execute_strategy_multi_timeframe from step k on.  frames[tf] is the
\* prepared copy of data_by_timeframe[tf]; every step starts from a fresh one.
RECURSIVE ExecuteSteps(_, _, _, _, _, _, _)
ExecuteSteps(s, k, loaded, frames, base_timeframe, base, trace) ==
    IF k > Len(s.steps[1]) THEN Returned(base, trace)
    ELSE LET step == s.steps[1][k] IN
         IF ~step.enabled \/ step.timeframe \notin loaded
         THEN ExecuteSteps(s, k + 1, loaded, frames, base_timeframe, base, trace)
         ELSE LET r == ExecuteStepOf(s, step, frames[step.timeframe])
                  t == Append(trace, Called("execute_step", step.step_name))
              IN IF ~r.ok THEN Raised(r.error, t)
                 ELSE IF step.timeframe # base_timeframe
                 THEN ExecuteSteps(s, k + 1, loaded, frames, base_timeframe,
                                   AlignNewColumns(base, r.df, r.df.cols \ base.cols), t)
                 ELSE ExecuteSteps(s, k + 1, loaded, frames, base_timeframe, r.df, t)

TruthySteps(s) == s.steps # <<>> /\ Len(s.steps[1]) > 0

\* execute_strategy_multi_timeframe
ExecuteStrategyMultiTimeframe(s, loaded, frames, base_timeframe) ==
    IF base_timeframe \notin loaded
    THEN Raised("ValueError: Base timeframe not found in data", <<>>)
    ELSE IF s._use_expandable_mode /\ TruthySteps(s)
    THEN ExecuteSteps(s, 1, loaded, frames, base_timeframe, frames[base_timeframe], <<>>)
    ELSE Run(s, frames[base_timeframe])

\* execute_strategy
ExecuteStrategyOf(s, timeframes, base_timeframe, source, frames) ==
    LET loaded == LoadMultiTimeframeData(timeframes, source)
    IN IF loaded = {} THEN Raised("ValueError: No data loaded", <<>>)
       ELSE ExecuteStrategyMultiTimeframe(s, loaded, frames, base_timeframe)

\* ------------------------------------------------- the inputs of the calls
\* What a row's indicators make of the comparisons a strategy evaluates on it.
Facts == {[setup_cond |-> "true",  trigger_cond |-> "true",  exit_cond |-> "false"],
          [setup_cond |-> "false", trigger_cond |-> "true",  exit_cond |-> "false"],
          [setup_cond |-> "null",  trigger_cond |-> "true",  exit_cond |-> "true"],
          [setup_cond |-> "true",  trigger_cond |-> "false", exit_cond |-> "true"]}

FactSeqs == UNION {[1..n -> Facts] : n \in 1..MaxRows}

\* The date of candle k of a timeframe: a 3d candle is dated on its second day.
CandleDate == [tf \in TIMEFRAMES |-> [k \in 1..MaxRows |-> IF tf = "1d" THEN k ELSE k + k + k - 1]]

\* The prepared frame of a timeframe: one row per candle, with its facts as columns.
Frame(tf, facts) ==
    [cols |-> {"setup_cond", "trigger_cond", "exit_cond"},
     rows |-> [k \in 1..Len(facts) |->
                 [date  |-> CandleDate[tf][k],
                  cells |-> [c \in {"setup_cond", "trigger_cond", "exit_cond"} |->
                               IF c = "setup_cond" THEN facts[k].setup_cond
                               ELSE IF c = "trigger_cond" THEN facts[k].trigger_cond
                               ELSE facts[k].exit_cond]]]]

\* The component dictionaries drawn: every key is absent or carries one of these tags
\* (one tag outside every closed set among them).
ConfigTags == {"NONE", "INDICATOR_THRESHOLD", "CANDLE_PATTERN", "TIME_BASED",
               "CONDITIONAL_OR_FIXED", "SUPERTREND"}

Variants == {[pattern |-> "GREEN_CANDLE", indicator |-> "RSI"],
             [pattern |-> "RED_CANDLE", indicator |-> "RSI"],
             [pattern |-> "THREE_WHITE_SOLDIERS", indicator |-> "MACD"]}

RawComponent(tag, timeframe, variant) ==
    [type |-> tag, timeframe |-> timeframe, pattern |-> variant.pattern,
     indicator |-> variant.indicator, crossover_type |-> None, direction |-> None]

ConfigDicts ==
    {[components |-> [key \in keys |->
                         RawComponent(tags[key], IF key = "setup" THEN tf ELSE "1d", variant)]] :
        keys \in SUBSET {"setup", "trigger", "exit"},
        tags \in [{"setup", "trigger", "exit"} -> ConfigTags],
        tf \in TIMEFRAMES, variant \in Variants}

LegacyConfigs ==
    [setup_type : {"NONE", "RSI_MOMENTUM"},
     pattern : {"ENGULFING_BULLISH", "ENGULFING_BEARISH", "DOJI"}]

\* The steps lists a step-based subclass passes to BaseStrategy.__init__.
UserSteps ==
    {<<StepConfig("setup", tf, e[1]), StepConfig("trigger", "1d", e[2]),
       StepConfig("exit", "1d", e[3])>> :
        tf \in TIMEFRAMES, e \in [1..3 -> BOOLEAN]}

\* ------------------------------------------------------------ DailyScanner
\* The timeframes of the pick profiles drawn (get_pick_profiles names 1d to 34d).
ProfileTimeframes == {"1d", "3d", "5d"}

\* A float that is a quotient of two accumulators is kept as the exact fraction num / den.
Frac(num, den) == [num |-> num, den |-> den]

\* What the data store holds for one symbol: what the RDS load of its 1d bars does, the
\* comparisons of its candles per timeframe, and their close (0 for a null or zero close:
\* every use reads it as `price or 0.0`).
Store(source, daily, resampled, close) ==
    [source |-> source,
     facts  |-> [tf \in ProfileTimeframes |-> IF tf = "1d" THEN daily ELSE resampled],
     close  |-> close]

\* self.executor = MultiTimeframeExecutor(rds_connection_string=...), and execute_strategy
\* called without use_s3: the 1d bars come from RDS, and load_multi_timeframe_data raises
\* "Resampled timeframe requires use_s3=True, s3_bucket ..." for every other timeframe.
ScannerSource(store) ==
    [tf \in ProfileTimeframes |-> IF tf = "1d" THEN store.source ELSE "raise"]

\* The prepared frames of a symbol: the candles of a timeframe in date order, with their
\* close.
ScanFrames(store) ==
    [tf \in ProfileTimeframes |->
        WithColumn(Frame("1d", store.facts[tf]), "close",
                   [k \in 1..Len(store.facts[tf]) |-> store.close])]

\* BaseStrategy.get_latest_signal: the most recent row whose signal is BUY or SELL.
GetLatestSignal(df) ==
    IF ~HasColumn(df, "signal")
    THEN [kind |-> "raise", signal |-> "HOLD", price |-> 0, setup_valid |-> "null"]
    ELSE LET signals == {k \in 1..Len(df.rows) : Cell(df, k, "signal") \in {"BUY", "SELL"}}
         IN IF signals = {}
            THEN [kind |-> "none", signal |-> "HOLD", price |-> 0, setup_valid |-> "null"]
            ELSE IF ~HasColumn(df, "setup_valid")
            THEN [kind |-> "raise", signal |-> "HOLD", price |-> 0, setup_valid |-> "null"]
            ELSE LET latest == CHOOSE k \in signals :
                                   \A j \in signals : df.rows[j].date <= df.rows[k].date
                 IN [kind        |-> "signal",
                     signal      |-> Cell(df, latest, "signal"),
                     price       |-> IF HasColumn(df, "close") THEN Cell(df, latest, "close")
                                     ELSE 0,
                     setup_valid |-> Cell(df, latest, "setup_valid")]

\* _build_term_weights: {tf: float(idx + 1) for idx, tf in enumerate(timeframes)}; a
\* timeframe listed twice keeps the weight of its last position.
BuildTermWeights(timeframes) ==
    [tf \in {timeframes[i] : i \in 1..Len(timeframes)} |->
        CHOOSE i \in 1..Len(timeframes) :
            /\ timeframes[i] = tf
            /\ \A j \in 1..Len(timeframes) : timeframes[j] = tf => j <= i]

\* sum(weights.values())
RECURSIVE SumValues(_, _)
SumValues(weights, keys) ==
    IF keys = {} THEN 0
    ELSE LET tf == CHOOSE t \in keys : TRUE
         IN weights[tf] + SumValues(weights, keys \ {tf})

TotalWeight(timeframes) ==
    SumValues(BuildTermWeights(timeframes), DOMAIN BuildTermWeights(timeframes))

\* The entries of votes: a vote, or the error of the timeframe.
Vote(signal, setup_valid, trigger_met, price, weight) ==
    [kind |-> "vote", signal |-> signal, setup_valid |-> setup_valid,
     trigger_met |-> trigger_met, price |-> price, weight |-> weight]

ErrorVote(weight) ==
    [kind |-> "error", signal |-> "", setup_valid |-> FALSE, trigger_met |-> FALSE,
     price |-> 0, weight |-> weight]

\* votes[timeframe] = ...
Put(votes, timeframe, vote) ==
    [tf \in DOMAIN votes \cup {timeframe} |-> IF tf = timeframe THEN vote ELSE votes[tf]]

\* The accumulators before the loop of _score_multi_timeframe_signal.
NoAccumulators ==
    [weighted_score |-> 0, weighted_setup |-> 0, weighted_trigger |-> 0,
     weighted_price |-> 0, votes |-> [tf \in {} |-> ErrorVote(0)]]

\* The try body of one timeframe up to its latest signal: "error" when execute_strategy
\* or get_latest_signal raises, "skip" on an empty frame or no BUY/SELL row.
TimeframeSignal(strat, timeframe, store) ==
    LET Latest(latest_signal) ==
            IF latest_signal.kind = "raise" THEN [latest_signal EXCEPT !.kind = "error"]
            ELSE IF latest_signal.kind = "none" THEN [latest_signal EXCEPT !.kind = "skip"]
            ELSE latest_signal
        Executed(r) ==
            IF ~r.ok
            THEN [kind |-> "error", signal |-> "HOLD", price |-> 0, setup_valid |-> "null"]
            ELSE IF ~HasRows(r.df)
            THEN [kind |-> "skip", signal |-> "HOLD", price |-> 0, setup_valid |-> "null"]
            ELSE Latest(GetLatestSignal(r.df))
    IN Executed(ExecuteStrategyOf(strat, {timeframe}, timeframe, ScannerSource(store),
                                  ScanFrames(store)))

\* One iteration of the loop over timeframes.
ScoreTimeframe(acc, strat, timeframe, weight, store) ==
    LET Counted(latest_signal) ==
          LET raw_signal  == latest_signal.signal
              setup_valid == latest_signal.setup_valid = "true"
              price       == latest_signal.price
          IN IF latest_signal.kind = "skip" THEN acc
             ELSE IF latest_signal.kind = "error"
             THEN [acc EXCEPT !.votes = Put(@, timeframe, ErrorVote(weight))]
             ELSE [weighted_score   |-> IF raw_signal = "BUY" THEN acc.weighted_score + weight
                                        ELSE IF raw_signal = "SELL"
                                        THEN acc.weighted_score - weight
                                        ELSE acc.weighted_score,
                   weighted_setup   |-> IF setup_valid THEN acc.weighted_setup + weight
                                        ELSE acc.weighted_setup,
                   weighted_trigger |-> IF raw_signal = "BUY" THEN acc.weighted_trigger + weight
                                        ELSE acc.weighted_trigger,
                   weighted_price   |-> IF price > 0 THEN acc.weighted_price + weight * price
                                        ELSE acc.weighted_price,
                   votes            |-> Put(acc.votes, timeframe,
                                            Vote(raw_signal, setup_valid, TRUE, price, weight))]
    IN Counted(TimeframeSignal(strat, timeframe, store))

\* min(max(weighted_score / total_weight, 0.0), 1.0)
Clamp(weighted_score, total_weight) ==
    IF weighted_score < 0 THEN Frac(0, total_weight)
    ELSE IF weighted_score > total_weight THEN Frac(total_weight, total_weight)
    ELSE Frac(weighted_score, total_weight)

\* The SignalResult of a pick-profile scan.
ProfileSignal(symbol, strat, timeframes, acc) ==
    [symbol      |-> symbol,
     signal      |-> "BUY",
     price       |-> IF acc.weighted_price > 0
                     THEN Frac(acc.weighted_price, TotalWeight(timeframes)) ELSE Frac(0, 1),
     setup_valid |-> acc.weighted_setup > 0,
     trigger_met |-> acc.weighted_trigger > 0,
     confidence  |-> Clamp(acc.weighted_score, TotalWeight(timeframes)),
     metadata    |-> [strategy_name |-> strat.kind, timeframes |-> timeframes,
                      timeframe_votes |-> acc.votes, weighted_score |-> acc.weighted_score,
                      total_weight |-> TotalWeight(timeframes), pick_type |-> ""]]

\* C11 mutant: a tied profile is retained.
ScoreReturnKeepsTies(symbol, strat, timeframes, acc) ==
    IF TotalWeight(timeframes) <= 0 THEN <<>>
    ELSE IF acc.weighted_score < 0 THEN <<>>
    ELSE <<ProfileSignal(symbol, strat, timeframes, acc)>>

\* What _score_multi_timeframe_signal returns after the loop: <<>> is None.
ScoreReturn(symbol, strat, timeframes, acc) ==
    IF TotalWeight(timeframes) <= 0 THEN <<>>
    ELSE IF acc.weighted_score <= 0 THEN <<>>
    ELSE <<ProfileSignal(symbol, strat, timeframes, acc)>>

\* The loop from position k on.
RECURSIVE ScoreLoop(_, _, _, _, _)
ScoreLoop(acc, strat, timeframes, k, store) ==
    IF k > Len(timeframes) THEN acc
    ELSE ScoreLoop(ScoreTimeframe(acc, strat, timeframes[k],
                                  BuildTermWeights(timeframes)[timeframes[k]], store),
                   strat, timeframes, k + 1, store)

\* _score_multi_timeframe_signal
ScoreMultiTimeframeSignal(symbol, strat, timeframes, store) ==
    ScoreReturn(symbol, strat, timeframes,
                ScoreLoop(NoAccumulators, strat, timeframes, 1, store))

\* get_required_timeframes: the base timeframe and, in expandable mode, the timeframes of
\* the enabled steps (no strategy class defines required_timeframes).
GetRequiredTimeframes(strat, base_timeframe) ==
    {base_timeframe} \cup
    (IF strat._use_expandable_mode /\ TruthySteps(strat)
     THEN {strat.steps[1][k].timeframe :
              k \in {j \in 1..Len(strat.steps[1]) : strat.steps[1][j].enabled}}
     ELSE {})

\* What a call that may raise hands back to a batch loop: the exception, or the signals
\* it returns (<<>> is None).
ScanRaised(error) == [raised |-> TRUE, error |-> error, signals |-> <<>>]

ScanReturned(signals) == [raised |-> FALSE, error |-> "", signals |-> signals]

\* _calculate_confidence, in tenths: 0.5, + 0.2 if setup_valid, + 0.3 if trigger_met, at
\* most 1.0.
CalculateConfidence(setup_valid, trigger_met) ==
    LET confidence == 5 + (IF setup_valid THEN 2 ELSE 0) + (IF trigger_met THEN 3 ELSE 0)
    IN Frac(IF confidence < 10 THEN confidence ELSE 10, 10)

\* The try body of scan_symbol.  SignalResult.setup_valid is a bool field: a null cell
\* fails its validation.
ScanSymbolBody(symbol, strat, store, base_timeframe) ==
    LET Latest(latest_signal, timeframes) ==
            IF latest_signal.kind = "raise" THEN ScanRaised("ColumnNotFoundError")
            ELSE IF latest_signal.kind = "none" \/ latest_signal.signal = "HOLD"
            THEN ScanReturned(<<>>)
            ELSE IF latest_signal.setup_valid \notin {"true", "false"}
            THEN ScanRaised("ValidationError")
            ELSE ScanReturned(<<
                   [symbol      |-> symbol,
                    signal      |-> latest_signal.signal,
                    price       |-> Frac(latest_signal.price, 1),
                    setup_valid |-> latest_signal.setup_valid = "true",
                    trigger_met |-> TRUE,
                    confidence  |-> CalculateConfidence(latest_signal.setup_valid = "true",
                                                        TRUE),
                    metadata    |-> [strategy_name |-> strat.kind,
                                     timeframes |-> timeframes,
                                     base_timeframe |-> base_timeframe]] >>)
        Executed(r, timeframes) ==
            IF ~r.ok THEN ScanRaised(r.error)
            ELSE IF ~HasRows(r.df) THEN ScanReturned(<<>>)
            ELSE Latest(GetLatestSignal(r.df), timeframes)
        Required(timeframes) ==
            Executed(ExecuteStrategyOf(strat, timeframes, base_timeframe,
                                       ScannerSource(store), ScanFrames(store)), timeframes)
    IN Required(GetRequiredTimeframes(strat, base_timeframe))

\* C17 mutant: scan_symbol without its except clause.
ScanSymbolUncaught(symbol, strat, store, base_timeframe) ==
    ScanSymbolBody(symbol, strat, store, base_timeframe)

\* scan_symbol: except Exception: print(...); return None
ScanSymbol(symbol, strat, store, base_timeframe) ==
    LET Caught(body) == IF body.raised THEN ScanReturned(<<>>) ELSE body
    IN Caught(ScanSymbolBody(symbol, strat, store, base_timeframe))

\* The loops of scan_symbols from symbol i, strategy j on: an exception of scan_symbol
\* would leave the loops.
RECURSIVE ScanSymbolsFrom(_, _, _, _, _, _)
ScanSymbolsFrom(symbols, strategies, stores, i, j, signals) ==
    IF i > Len(symbols) THEN ScanReturned(signals)
    ELSE IF j > Len(strategies)
    THEN ScanSymbolsFrom(symbols, strategies, stores, i + 1, 1, signals)
    ELSE LET Scanned(signal) ==
                 IF signal.raised THEN ScanRaised(signal.error)
                 ELSE ScanSymbolsFrom(symbols, strategies, stores, i, j + 1,
                                      signals \o signal.signals)
         IN Scanned(ScanSymbol(symbols[i], strategies[j], stores[symbols[i]], "1d"))

\* scan_symbols
ScanSymbols(symbols, strategies, stores) ==
    ScanSymbolsFrom(symbols, strategies, stores, 1, 1, <<>>)

\* metadata["pick_type"] = profile["pick_type"]
WithPickType(signal, pick_type) == [signal EXCEPT !.metadata.pick_type = pick_type]

\* The loops of scan_symbols_by_pick_profiles from symbol i, profile j on.  The strategy
\* of a profile is what its strategy_factory returns.
RECURSIVE ScanProfilesFrom(_, _, _, _, _, _)
ScanProfilesFrom(symbols, pick_profiles, stores, i, j, signals) ==
    IF i > Len(symbols) THEN ScanReturned(signals)
    ELSE IF j > Len(pick_profiles)
    THEN ScanProfilesFrom(symbols, pick_profiles, stores, i + 1, 1, signals)
    ELSE LET profile == pick_profiles[j]
             Appended(signal) ==
                 ScanProfilesFrom(symbols, pick_profiles, stores, i, j + 1,
                     signals \o (IF signal = <<>> THEN <<>>
                                 ELSE <<WithPickType(signal[1], profile.pick_type)>>))
         IN Appended(ScoreMultiTimeframeSignal(symbols[i], profile.strategy,
                                               profile.timeframes, stores[symbols[i]]))

\* scan_symbols_by_pick_profiles
ScanSymbolsByPickProfiles(symbols, pick_profiles, stores) ==
    ScanProfilesFrom(symbols, pick_profiles, stores, 1, 1, <<>>)

\* ------------------------------------------------- the inputs of the scans
\* The strategies scanned: a library strategy, two legacy composites (one publishing
\* SELL, one BUY), a subclass whose steps publish nothing, and a step-based subclass
\* with its setup on 3d.
ScanStrategies ==
    {LibraryStrategy,
     CompositeFromConfig([setup_type |-> "NONE", pattern |-> "ENGULFING_BEARISH"]),
     CompositeFromConfig([setup_type |-> "RSI_MOMENTUM", pattern |-> "ENGULFING_BULLISH"]),
     UserStrategy(<<>>, {}),
     UserStrategy(<< <<StepConfig("setup", "3d", TRUE), StepConfig("trigger", "1d", TRUE),
                      StepConfig("exit", "1d", TRUE)>> >>,
                  {"setup_valid", "signal", "exit_signal"})}

\* The candles of the resampled timeframes: one candle, with or without a signal.
ResampledFacts == {<<f>> : f \in {x \in Facts : x.exit_cond = "false"}}

Stores ==
    {Store(source, <<>>, <<>>, 0) : source \in {"raise", "empty"}} \cup
    {Store("rows", daily, resampled, close) :
        daily \in FactSeqs, resampled \in ResampledFacts, close \in {0, 100}}

\* The timeframes lists of a profile (a timeframe may be listed twice).
ProfileLists == UNION {[1..n -> ProfileTimeframes] : n \in 0..MaxTimeframes}

Symbols == {"AAA", "BBB"}

SymbolLists == UNION {[1..n -> Symbols] : n \in 0..MaxSymbols}

StrategyLists == UNION {[1..n -> ScanStrategies] : n \in 0..MaxStrategies}

\* The stores of a batch: per symbol, a failing load or one candle.
BatchStores ==
    {Store("raise", <<>>, <<>>, 0)} \cup
    {Store("rows", <<f>>, <<f>>, 100) : f \in {x \in Facts : x.setup_cond # "null"}}

Profile(pick_type, strat, timeframes) ==
    [pick_type |-> pick_type, strategy |-> strat, timeframes |-> timeframes]

\* Pick profiles as get_pick_profiles builds them, and two a caller passes.
PickProfiles ==
    {Profile("golden_cross_short_term", LibraryStrategy, <<"1d", "3d", "5d">>),
     Profile("golden_cross_long_term", LibraryStrategy, <<"3d", "5d">>),
     Profile("bearish", CompositeFromConfig([setup_type |-> "NONE",
                                             pattern |-> "ENGULFING_BEARISH"]), <<"1d">>),
     Profile("custom", UserStrategy(<<>>, {}), <<"3d", "1d">>)}

ProfileListsOfBatch == UNION {[1..n -> PickProfiles] : n \in 0..MaxStrategies}

NoScan ==
    [op |-> "none", pc |-> "idle", symbols |-> <<>>, strategies |-> <<>>,
     pick_profiles |-> <<>>, stores |-> <<>>, k |-> 0]

NoScanOut == ScanReturned(<<>>)

ScanIdle ==
    /\ scan_call = NoScan
    /\ scan_acc = NoAccumulators
    /\ scan_out = NoScanOut

\* ------------------------------------------------ floats of rank_signals
\* A non-negative double below 4 is the integer n = value * 2^56, kept in two limbs:
\* n = hi * 2^28 + lo with 0 <= lo < 2^28.  The literals are the doubles Python reads.
Double(hi, lo) == [hi |-> hi, lo |-> lo]

Zero == Double(0, 0)

\* 0.15, 0.10, 1.5 and the confidences drawn: 0.5, 0.6, 1.0
FifteenHundredths == Double(40265318, 107374182)

TenHundredths == Double(26843545, 161061274)

OneAndAHalf == Double(402653184, 0)

Half == Double(134217728, 0)

SixTenths == Double(161061273, 161061272)

One == Double(268435456, 0)

\* The spacing of the doubles around a value, in units of 2^-56: 16 in [1, 2), 32 in
\* [2, 4), 8 in [0.5, 1), 4 in [0.25, 0.5), 2 in [0.125, 0.25), 1 below.
Ulp(hi) ==
    IF hi >= 536870912 THEN 32
    ELSE IF hi >= 268435456 THEN 16
    ELSE IF hi >= 134217728 THEN 8
    ELSE IF hi >= 67108864 THEN 4
    ELSE IF hi >= 33554432 THEN 2
    ELSE 1

\* a + b of two doubles: the exact sum rounded to the nearest double, ties to the even
\* mantissa (IEEE 754 binary64, as CPython adds floats).
FloatAdd(a, b) ==
    LET lo    == (a.lo + b.lo) % 268435456
        hi    == a.hi + b.hi + ((a.lo + b.lo) \div 268435456)
        q     == Ulp(hi)
        r     == lo % q
        down  == lo - r
        up    == IF r + r < q THEN down
                 ELSE IF r + r > q THEN down + q
                 ELSE IF (down \div q) % 2 = 0 THEN down ELSE down + q
    IN Double(hi + (up \div 268435456), up % 268435456)

FloatLess(a, b) == a.hi < b.hi \/ (a.hi = b.hi /\ a.lo < b.lo)

FloatMin(a, b) == IF FloatLess(b, a) THEN b ELSE a

\* --------------------------------------------------------- rank_signals
\* C13 mutant: the BUY bonus is left out.
ScoreWithoutBuyBonus(signal) ==
    LET confidence == IF signal.confidence = <<>> THEN Zero ELSE signal.confidence[1]
        s1 == IF signal.setup_valid THEN FloatAdd(confidence, FifteenHundredths)
              ELSE confidence
    IN IF signal.trigger_met THEN FloatAdd(s1, FifteenHundredths) ELSE s1

\* score = float(signal.confidence or 0.0), += 0.15, += 0.15, += 0.10
Score(signal) ==
    LET confidence == IF signal.confidence = <<>> THEN Zero ELSE signal.confidence[1]
        s1 == IF signal.setup_valid THEN FloatAdd(confidence, FifteenHundredths)
              ELSE confidence
        s2 == IF signal.trigger_met THEN FloatAdd(s1, FifteenHundredths) ELSE s1
    IN IF signal.signal = "BUY" THEN FloatAdd(s2, TenHundredths) ELSE s2

\* scored.append((score, signal)), with metadata["ranking_score"] = min(score, 1.5)
Scored(signals) ==
    [k \in 1..Len(signals) |->
        [score  |-> Score(signals[k]),
         signal |-> [signals[k] EXCEPT
                        !.metadata = [ranking_score |-> FloatMin(Score(signals[k]),
                                                                 OneAndAHalf)]]]]

\* C14 mutant: the sort is ascending.
RECURSIVE InsertByScoreAscending(_, _)
InsertByScoreAscending(sorted, item) ==
    IF sorted = <<>> THEN <<item>>
    ELSE IF FloatLess(item.score, Head(sorted).score) THEN <<item>> \o sorted
    ELSE <<Head(sorted)>> \o InsertByScoreAscending(Tail(sorted), item)

\* The place of an item in a list sorted by score, descending: after every item whose
\* score is not smaller (the sort is stable).
RECURSIVE InsertByScore(_, _)
InsertByScore(sorted, item) ==
    IF sorted = <<>> THEN <<item>>
    ELSE IF FloatLess(Head(sorted).score, item.score) THEN <<item>> \o sorted
    ELSE <<Head(sorted)>> \o InsertByScore(Tail(sorted), item)

\* scored.sort(key=lambda x: x[0], reverse=True)
RECURSIVE SortByScore(_)
SortByScore(scored) ==
    IF scored = <<>> THEN <<>>
    ELSE InsertByScore(SortByScore(SubSeq(scored, 1, Len(scored) - 1)), scored[Len(scored)])

\* The loop over scored from position k on: the length is compared with top_k after the
\* append.
RECURSIVE RankLoop(_, _, _, _, _, _)
RankLoop(scored, k, picked, seen_symbols, top_k, unique_symbol) ==
    IF k > Len(scored) THEN picked
    ELSE IF unique_symbol /\ scored[k].signal.symbol \in seen_symbols
    THEN RankLoop(scored, k + 1, picked, seen_symbols, top_k, unique_symbol)
    ELSE IF Len(picked) + 1 >= top_k THEN Append(picked, scored[k].signal)
    ELSE RankLoop(scored, k + 1, Append(picked, scored[k].signal),
                  seen_symbols \cup {scored[k].signal.symbol}, top_k, unique_symbol)

\* rank_signals
RankSignals(signals, top_k, unique_symbol) ==
    IF signals = <<>> THEN <<>>
    ELSE RankLoop(SortByScore(Scored(signals)), 1, <<>>, {}, top_k, unique_symbol)

\* The signals ranked: per symbol, four signals of different confidence and flags; id
\* tells the objects of a list apart.
RankedSignal(id, symbol, confidence, setup_valid, trigger_met, signal) ==
    [id |-> id, symbol |-> symbol, confidence |-> confidence, setup_valid |-> setup_valid,
     trigger_met |-> trigger_met, signal |-> signal, metadata |-> <<>>]

SignalKinds ==
    {[confidence |-> <<SixTenths>>, setup_valid |-> TRUE, trigger_met |-> TRUE, signal |-> "BUY"],
     [confidence |-> <<Half>>, setup_valid |-> FALSE, trigger_met |-> FALSE, signal |-> "SELL"],
     [confidence |-> <<>>, setup_valid |-> TRUE, trigger_met |-> FALSE, signal |-> "BUY"],
     [confidence |-> <<One>>, setup_valid |-> TRUE, trigger_met |-> TRUE, signal |-> "BUY"]}

SignalLists ==
    UNION {{[k \in 1..n |-> RankedSignal(k, symbols[k], kinds[k].confidence,
                                         kinds[k].setup_valid, kinds[k].trigger_met,
                                         kinds[k].signal)] :
               symbols \in [1..n -> Symbols], kinds \in [1..n -> SignalKinds]} :
           n \in 0..MaxSignals}

NoRank == [op |-> "none", signals |-> <<>>, top_k |-> 0, unique_symbol |-> FALSE]

RankIdle ==
    /\ rank_call = NoRank
    /\ ranked = <<>>

\* ------------------------------------------------- resample_ohlcv (inputs.py)
\* A 1d frame is a sequence of rows [date, open, high, low, close, volume]; a date is
\* a number of days since the epoch.  group_by_dynamic(every = "Nd") puts a row in the
\* window that starts at its date truncated to a multiple of N days and labels the
\* window by its start.
WindowStart(d, every) == d - (d % every)

\* The first row of a window: open.first(), and the running high, low, close, volume.
OpenWindow(row, every) ==
    [date |-> WindowStart(row.date, every), open |-> row.open, high |-> row.high,
     low |-> row.low, close |-> row.close, volume |-> row.volume]

\* C22 mutant: the close of a window is the close of its first row.
AggregateCloseFirst(window, row) ==
    [window EXCEPT !.high   = IF row.high > @ THEN row.high ELSE @,
                   !.low    = IF row.low < @ THEN row.low ELSE @,
                   !.volume = @ + row.volume]

\* A further row of the window: high.max(), low.min(), close.last(), volume.sum().
Aggregate(window, row) ==
    [window EXCEPT !.high   = IF row.high > @ THEN row.high ELSE @,
                   !.low    = IF row.low < @ THEN row.low ELSE @,
                   !.close  = row.close,
                   !.volume = @ + row.volume]

\* group_by_dynamic(...).agg(...) over the sorted rows: one output row per window that
\* holds a row, in the order of the windows.
RECURSIVE GroupByDynamic(_, _, _)
GroupByDynamic(rows, every, out) ==
    IF rows = <<>> THEN out
    ELSE IF out # <<>> /\ out[Len(out)].date = WindowStart(Head(rows).date, every)
    THEN GroupByDynamic(Tail(rows), every,
                        [out EXCEPT ![Len(out)] = Aggregate(@, Head(rows))])
    ELSE GroupByDynamic(Tail(rows), every, Append(out, OpenWindow(Head(rows), every)))

\* resample_ohlcv(df_1d, interval_days)
ResampleOhlcv(df_1d, interval_days) ==
    IF df_1d = <<>> THEN df_1d
    ELSE GroupByDynamic(SortByDate(df_1d), interval_days, <<>>)

NoResample == [op |-> "none", df_1d |-> <<>>, interval_days |-> 0]

ResampleIdle ==
    /\ resample_call = NoResample
    /\ resample_out = <<>>

\* ----------------- setup steps on indicator columns (technicals.py, builder.py)
\* A column is a sequence of cells, one per row.  A numeric cell is <<>> (null) or
\* <<[num, den]>>, the value num / den; a boolean cell is "true", "false" or "null".
RECURSIVE SumCloses(_, _, _)
SumCloses(closes, from, to) ==
    IF from > to THEN 0 ELSE closes[from] + SumCloses(closes, from + 1, to)

\* pl.col(price_col).rolling_mean(window_size = period): null until the window is full.
RollingMean(closes, window_size) ==
    [k \in 1..Len(closes) |->
        IF k < window_size THEN <<>>
        ELSE <<[num |-> SumCloses(closes, k - window_size + 1, k), den |-> window_size]>>]

\* calculate_sma(df, period): the column sma_{period}.
CalculateSma(closes, period) == RollingMean(closes, period)

\* pl.lit(value) broadcast over the rows.
Lit(closes, value) == [k \in 1..Len(closes) |-> <<[num |-> value, den |-> 1]>>]

\* col.shift(1)
Shift(col) == [k \in 1..Len(col) |-> IF k = 1 THEN <<>> ELSE col[k - 1]]

BoolCell(b) == IF b THEN "true" ELSE "false"

\* A comparison of two numeric cells; null when either is null.
CompareCells(operator, a, b) ==
    IF a = <<>> \/ b = <<>> THEN "null"
    ELSE LET l == a[1].num * b[1].den
             r == b[1].num * a[1].den
         IN BoolCell(CASE operator = ">"  -> l > r
                       [] operator = "<"  -> l < r
                       [] operator = ">=" -> l >= r
                       [] operator = "<=" -> l <= r
                       [] operator = "==" -> l = r)

Compare(operator, left, right) ==
    [k \in 1..Len(left) |-> CompareCells(operator, left[k], right[k])]

\* a & b on boolean cells: false wins over null, null over true.
AndCells(a, b) ==
    IF a = "false" \/ b = "false" THEN "false"
    ELSE IF a = "null" \/ b = "null" THEN "null"
    ELSE "true"

And(left, right) == [k \in 1..Len(left) |-> AndCells(left[k], right[k])]

\* GoldenCrossStrategy.setup(df): sma_50 > sma_200, on the periods of the two columns.
GoldenCrossSetup(closes, fast, slow) ==
    Compare(">", CalculateSma(closes, fast), CalculateSma(closes, slow))

\* CompositeStrategy._setup_indicator_threshold(setup, df) for an SMA indicator:
\* setup is [period, operator, value, indicator2], indicator2 = <<>> or <<the period
\* of the other sma column>>.
SetupIndicatorThreshold(setup, closes) ==
    LET indicator == CalculateSma(closes, setup.period)
        value     == Lit(closes, setup.value)
    IN IF setup.operator \in {"CROSS_ABOVE", "CROSS_BELOW"}
       THEN LET now    == IF setup.operator = "CROSS_ABOVE" THEN ">" ELSE "<"
                before == IF setup.operator = "CROSS_ABOVE" THEN "<=" ELSE ">="
            IN IF setup.indicator2 # <<>>
               THEN LET indicator2 == CalculateSma(closes, setup.indicator2[1])
                    IN And(Compare(now, indicator, indicator2),
                           Compare(before, Shift(indicator), Shift(indicator2)))
               ELSE And(Compare(now, indicator, value),
                        Compare(before, Shift(indicator), value))
       ELSE Compare(setup.operator, indicator, value)

NoSetup ==
    [op |-> "none", kind |-> "", closes |-> <<>>,
     setup |-> [period |-> 0, operator |-> "", value |-> 0, indicator2 |-> <<>>]]

SetupIdle ==
    /\ setup_call = NoSetup
    /\ setup_df = <<>>

\* -------------------------------------------------------------- the calls
NoCall ==
    [op |-> "none", step_name |-> "", timeframes |-> {}, base_timeframe |-> "",
     source |-> [tf \in TIMEFRAMES |-> ""]]

NoOutcome == [ok |-> FALSE, error |-> "", df |-> EmptyFrame, trace |-> <<>>]

AlignIdle ==
    /\ base_df = EmptyFrame
    /\ higher_timeframe_df = EmptyFrame
    /\ signal_column = ""
    /\ base_with_signals = <<>>

BacktestIdle ==
    /\ backtester = [slippage |-> 0]
    /\ data = <<>>
    /\ stop_loss_pct = 0
    /\ take_profit_pct = 0
    /\ trailing_stop_pct = 0
    /\ max_holding_days = 0
    /\ pc = "idle"
    /\ row_idx = 1
    /\ open_position = <<>>
    /\ positions = <<>>
    /\ capital = InitialCapital
    /\ equity_curve = <<>>
    /\ result = <<>>
    /\ returned = <<>>

StrategyIdle ==
    /\ strategy = BlankStrategy
    /\ call = NoCall
    /\ outcome = NoOutcome

InitStrategy ==
    /\ BacktestIdle
    /\ AlignIdle
    /\ StrategyIdle
    /\ ScanIdle
    /\ RankIdle
    /\ ResampleIdle
    /\ SetupIdle

\* GoldenCrossStrategy() and the other library classes.
NewLibraryStrategy ==
    /\ strategy.kind = "none" /\ call.op = "none"
    /\ strategy' = LibraryStrategy
    /\ UNCHANGED <<call, outcome, btvars, alvars, scvars, rkvars, rsvars, suvars>>

\* CompositeStrategy(config=StrategyConfig(...))
NewCompositeStrategy ==
    /\ strategy.kind = "none" /\ call.op = "none"
    /\ \E config \in LegacyConfigs : strategy' = CompositeFromConfig(config)
    /\ UNCHANGED <<call, outcome, btvars, alvars, scvars, rkvars, rsvars, suvars>>

\* class X(BaseStrategy) of a caller, with or without steps.
NewUserStrategy ==
    /\ strategy.kind = "none" /\ call.op = "none"
    /\ \E steps \in {<<>>, << <<>> >>} \cup {<<st>> : st \in UserSteps},
          publishes \in SUBSET {"setup_valid", "signal", "exit_signal"} :
          strategy' = UserStrategy(steps, publishes)
    /\ UNCHANGED <<call, outcome, btvars, alvars, scvars, rkvars, rsvars, suvars>>

\* CompositeStrategy.from_requirements_json(config_dict)
FromRequirementsJson ==
    /\ strategy.kind = "none" /\ call.op = "none"
    /\ \E config_dict \in ConfigDicts :
          IF ValidConfig(config_dict)
          THEN /\ strategy' = CompositeFromRequirements(config_dict)
               /\ UNCHANGED <<call, outcome>>
          ELSE /\ call' = [NoCall EXCEPT !.op = "from_requirements_json"]
               /\ outcome' = Raised("ValidationError", <<>>)
               /\ UNCHANGED strategy
    /\ UNCHANGED <<btvars, alvars, scvars, rkvars, rsvars, suvars>>

\* strategy.run(df)
RunStrategy ==
    /\ strategy.kind # "none" /\ call.op = "none"
    /\ \E facts \in FactSeqs :
          outcome' = Run(strategy, Frame("1d", facts))
    /\ call' = [NoCall EXCEPT !.op = "run"]
    /\ UNCHANGED <<strategy, btvars, alvars, scvars, rkvars, rsvars, suvars>>

\* strategy.execute_step(StepConfig(step_name=role), df), on a prepared frame or on one
\* that an earlier setup step has annotated.
ExecuteStep ==
    /\ strategy.kind # "none" /\ call.op = "none"
    /\ \E role \in {"setup", "trigger", "exit"}, facts \in FactSeqs, annotated \in BOOLEAN :
          LET df == IF annotated THEN LibrarySetup(Frame("1d", facts)).df
                    ELSE Frame("1d", facts)
              r == ExecuteStepOf(strategy, StepConfig(role, "1d", TRUE), df)
          IN /\ outcome' = [r EXCEPT !.trace = <<Called("execute_step", role)>>]
             /\ call' = [NoCall EXCEPT !.op = "execute_step", !.step_name = role]
    /\ UNCHANGED <<strategy, btvars, alvars, scvars, rkvars, rsvars, suvars>>

\* executor.execute_strategy(strategy, symbol, timeframes, ..., base_timeframe)
ExecuteStrategy ==
    /\ strategy.kind # "none" /\ call.op = "none"
    /\ \E timeframes \in SUBSET TIMEFRAMES, base_timeframe \in TIMEFRAMES,
          source \in [TIMEFRAMES -> {"raise", "empty", "rows"}], facts \in FactSeqs :
          /\ outcome' = ExecuteStrategyOf(strategy, timeframes, base_timeframe, source,
                                          [tf \in TIMEFRAMES |-> Frame(tf, facts)])
          /\ call' = [NoCall EXCEPT !.op = "execute_strategy", !.timeframes = timeframes,
                                    !.base_timeframe = base_timeframe, !.source = source]
    /\ UNCHANGED <<strategy, btvars, alvars, scvars, rkvars, rsvars, suvars>>

NextStrategy ==
    \/ NewLibraryStrategy
    \/ NewCompositeStrategy
    \/ NewUserStrategy
    \/ FromRequirementsJson
    \/ RunStrategy
    \/ ExecuteStep
    \/ ExecuteStrategy

SpecStrategy == InitStrategy /\ [][NextStrategy]_vars

\* -------------------------------------------------------------- Backtester
InitBacktest ==
    /\ backtester \in [slippage : {0, 1}]
    /\ \E bars \in BarSeqs, descending \in BOOLEAN : data = Dated(bars, descending)
    /\ stop_loss_pct \in {0, 5}
    /\ take_profit_pct \in {0, 10}
    /\ trailing_stop_pct \in {0, 3}
    /\ max_holding_days \in {0, 2}
    /\ pc = "start"
    /\ row_idx = 1
    /\ open_position = <<>>
    /\ positions = <<>>
    /\ capital = InitialCapital
    /\ equity_curve = <<>>
    /\ result = <<>>
    /\ returned = <<>>
    /\ AlignIdle
    /\ StrategyIdle
    /\ ScanIdle
    /\ RankIdle
    /\ ResampleIdle
    /\ SetupIdle

\* C23 mutant: the capital is kept from one call to the next.
RunStartCapitalKept ==
    /\ pc = "start"
    /\ positions' = <<>>
    /\ open_position' = <<>>
    /\ equity_curve' = <<capital>>
    /\ capital' = capital
    /\ data' = SortByDate(data)
    /\ row_idx' = 1
    /\ pc' = "loop"
    /\ UNCHANGED <<backtester, stop_loss_pct, take_profit_pct, trailing_stop_pct,
                   max_holding_days, result, returned, alvars, stvars, scvars, rkvars, rsvars, suvars>>

\* run(), lines 148-155: initialise the tracking state and sort by date.
RunStart ==
    /\ pc = "start"
    /\ positions' = <<>>
    /\ open_position' = <<>>
    /\ equity_curve' = <<InitialCapital>>
    /\ capital' = InitialCapital
    /\ data' = SortByDate(data)
    /\ row_idx' = 1
    /\ pc' = "loop"
    /\ UNCHANGED <<backtester, stop_loss_pct, take_profit_pct, trailing_stop_pct,
                   max_holding_days, result, returned, alvars, stvars, scvars, rkvars, rsvars, suvars>>

\* C28 mutant: the position closed by a rule stays the open position.
AfterExitPositionKept(row) ==
    LET should == IF open_position # <<>>
                  THEN CheckExitConditions(open_position[1], row.date, row.close, row)
                  ELSE <<FALSE, "">>
    IN IF should[1]
       THEN [open_position |-> open_position,
             positions     |-> Append(positions,
                                 ClosePosition(open_position[1], row.date,
                                               ExitPrice(row.close), should[2])),
             capital       |-> Realize(capital, 2),
             equity_curve  |-> Append(equity_curve, Realize(capital, 2))]
       ELSE [open_position |-> open_position,
             positions     |-> positions,
             capital       |-> capital,
             equity_curve  |-> equity_curve]

\* The exit half of one loop iteration: the state after lines 163-187.
AfterExit(row) ==
    LET should == IF open_position # <<>>
                  THEN CheckExitConditions(open_position[1], row.date, row.close, row)
                  ELSE <<FALSE, "">>
    IN IF should[1]
       THEN [open_position |-> <<>>,
             positions     |-> Append(positions,
                                 ClosePosition(open_position[1], row.date,
                                               ExitPrice(row.close), should[2])),
             capital       |-> Realize(capital, 2),
             equity_curve  |-> Append(equity_curve, Realize(capital, 2))]
       ELSE [open_position |-> open_position,
             positions     |-> positions,
             capital       |-> capital,
             equity_curve  |-> equity_curve]

\* C25 mutant: a bar that closed a position does not enter a new one.
AfterEntryNotAfterExit(row, st) ==
    IF row.signal = "BUY" /\ st.open_position = <<>> /\ st.positions = positions
    THEN [open_position |-> <<NewPosition(row.date, EntryPrice(row.close))>>,
          positions     |-> st.positions,
          capital       |-> Charge(st.capital),
          equity_curve  |-> Append(st.equity_curve, Charge(st.capital))]
    ELSE st

\* C2 mutant: the entry does not look at open_position.
AfterEntryUnguarded(row, st) ==
    IF row.signal = "BUY"
    THEN [open_position |-> <<NewPosition(row.date, EntryPrice(row.close))>>,
          positions     |-> st.positions,
          capital       |-> Charge(st.capital),
          equity_curve  |-> Append(st.equity_curve, Charge(st.capital))]
    ELSE st

\* The entry half of the iteration: the state after lines 189-202.
AfterEntry(row, st) ==
    IF row.signal = "BUY" /\ st.open_position = <<>>
    THEN [open_position |-> <<NewPosition(row.date, EntryPrice(row.close))>>,
          positions     |-> st.positions,
          capital       |-> Charge(st.capital),
          equity_curve  |-> Append(st.equity_curve, Charge(st.capital))]
    ELSE st

\* Lines 204-206: the equity curve also grows on a bar that leaves no position open.
AfterFlat(st) ==
    IF st.open_position = <<>>
    THEN [st EXCEPT !.equity_curve = Append(st.equity_curve, st.capital)]
    ELSE st

\* One iteration of `for row in data.iter_rows(named=True)`.
RunBar ==
    /\ pc = "loop"
    /\ row_idx <= Len(data)
    /\ LET st == AfterFlat(AfterEntry(data[row_idx], AfterExit(data[row_idx])))
       IN /\ open_position' = st.open_position
          /\ positions' = st.positions
          /\ capital' = st.capital
          /\ equity_curve' = st.equity_curve
    /\ row_idx' = row_idx + 1
    /\ UNCHANGED <<backtester, data, stop_loss_pct, take_profit_pct, trailing_stop_pct,
                   max_holding_days, pc, result, returned, alvars, stvars, scvars,
                   rkvars, rsvars, suvars>>

\* C27 mutant: the force-close does not extend the equity curve.
AfterEndOfDataCurveNotExtended ==
    IF open_position # <<>>
    THEN LET last_row == data[Len(data)]
             closed   == ClosePosition(open_position[1], last_row.date,
                                       ExitPrice(last_row.close), "end_of_data")
         IN [open_position |-> <<closed>>,
             positions     |-> Append(positions, closed),
             capital       |-> Realize(capital, 1),
             equity_curve  |-> equity_curve]
    ELSE [open_position |-> open_position, positions |-> positions,
          capital |-> capital, equity_curve |-> equity_curve]

\* C3 mutant: the position still open after the loop is closed but not recorded.
AfterEndOfDataNotRecorded ==
    IF open_position # <<>>
    THEN LET last_row == data[Len(data)]
             closed   == ClosePosition(open_position[1], last_row.date,
                                       ExitPrice(last_row.close), "end_of_data")
         IN [open_position |-> <<closed>>,
             positions     |-> positions,
             capital       |-> Realize(capital, 1),
             equity_curve  |-> Append(equity_curve, Realize(capital, 1))]
    ELSE [open_position |-> open_position, positions |-> positions,
          capital |-> capital, equity_curve |-> equity_curve]

\* Lines 208-216: the state after closing what is still open at the end.
AfterEndOfData ==
    IF open_position # <<>>
    THEN LET last_row == data[Len(data)]
             closed   == ClosePosition(open_position[1], last_row.date,
                                       ExitPrice(last_row.close), "end_of_data")
         IN [open_position |-> <<closed>>,
             positions     |-> Append(positions, closed),
             capital       |-> Realize(capital, 1),
             equity_curve  |-> Append(equity_curve, Realize(capital, 1))]
    ELSE [open_position |-> open_position, positions |-> positions,
          capital |-> capital, equity_curve |-> equity_curve]

\* The loop is over: close the remaining position and return the metrics.
RunFinish ==
    /\ pc = "loop"
    /\ row_idx > Len(data)
    /\ LET st == AfterEndOfData
       IN /\ open_position' = st.open_position
          /\ positions' = st.positions
          /\ capital' = st.capital
          /\ equity_curve' = st.equity_curve
          /\ result' = <<CalculateMetrics(st.positions, st.equity_curve, st.capital)>>
          /\ returned' = Append(returned,
                                [trailing_stop_pct |-> trailing_stop_pct,
                                 result |-> CalculateMetrics(st.positions, st.equity_curve,
                                                             st.capital)])
    /\ pc' = "done"
    /\ UNCHANGED <<backtester, data, stop_loss_pct, take_profit_pct, trailing_stop_pct,
                   max_holding_days, row_idx, alvars, stvars, scvars, rkvars, rsvars, suvars>>

\* The caller calls run() again on the same Backtester, with the same strategy, data
\* and exit parameters, trailing_stop_pct set or not.  The locals of the call that
\* returned are left as they are: run() initialises its own (lines 148-152).
RunAgain ==
    /\ pc = "done"
    /\ Len(returned) < MaxRuns
    /\ trailing_stop_pct' \in {0, 3}
    /\ pc' = "start"
    /\ UNCHANGED <<backtester, data, stop_loss_pct, take_profit_pct, max_holding_days,
                   row_idx, open_position, positions, capital, equity_curve, result,
                   returned, alvars, stvars, scvars, rkvars, rsvars, suvars>>

NextBacktest == RunStart \/ RunBar \/ RunFinish \/ RunAgain

\* ------------------------------------------------- claims on Backtester.run
\* The loop has started: data is sorted, and rows 1..row_idx-1 have been processed.
Running == pc \in {"loop", "done"}

RowAt(d) == data[CHOOSE k \in 1..Len(data) : data[k].date = d]

ExitOrder == <<"stop_loss", "take_profit", "trailing_stop", "time_based", "signal">>

\* The named exit condition is enabled and satisfied for position p on the row.
Satisfied(reason, p, row) ==
    CASE reason = "stop_loss"     -> StopLossHit(p, row.close)
      [] reason = "take_profit"   -> TakeProfitHit(p, row.close)
      [] reason = "trailing_stop" -> TrailingStopHit(p, row.close)
      [] reason = "time_based"    -> TimeBasedHit(p, row.date)
      [] reason = "signal"        -> ExitSignalHit(row)

AnySatisfied(p, row) == \E k \in 1..Len(ExitOrder) : Satisfied(ExitOrder[k], p, row)

\* C1: a position that entered before a bar is closed on the first later bar where an
\* enabled exit condition holds, and its exit_reason is the first condition of the
\* order stop_loss, take_profit, trailing_stop, time_based, signal that holds there.
C1_ExitPrecedence ==
    Running =>
        /\ \A i \in 1..Len(positions) :
              LET p == positions[i] IN
              /\ p.exit_reason # "end_of_data" =>
                    /\ p.exit_date > p.entry_date
                    /\ \E k \in 1..Len(ExitOrder) :
                          /\ p.exit_reason = ExitOrder[k]
                          /\ Satisfied(ExitOrder[k], p, RowAt(p.exit_date))
                          /\ \A j \in 1..(k - 1) :
                                ~Satisfied(ExitOrder[j], p, RowAt(p.exit_date))
              /\ \A k \in 1..Len(data) :
                    ( /\ data[k].date > p.entry_date
                      /\ \/ data[k].date < p.exit_date
                         \/ p.exit_reason = "end_of_data" )
                    => ~AnySatisfied(p, data[k])
        /\ (open_position # <<>> /\ IsOpen(open_position[1])) =>
              \A k \in 1..(row_idx - 1) :
                  data[k].date > open_position[1].entry_date
                  => ~AnySatisfied(open_position[1], data[k])

\* C1 witness: a trade closed as stop_loss on a bar where time_based and the
\* strategy's exit signal hold as well.
C1_Witness ==
    /\ Running
    /\ \E i \in 1..Len(positions) :
          /\ positions[i].exit_reason = "stop_loss"
          /\ TimeBasedHit(positions[i], positions[i].exit_date)
          /\ ExitSignalHit(RowAt(positions[i].exit_date))

\* Position objects created so far that are still open.
OpenCount ==
    Cardinality({i \in 1..Len(positions) : IsOpen(positions[i])})
    + (IF open_position # <<>> /\ IsOpen(open_position[1]) THEN 1 ELSE 0)

\* C2: at most one Position is open at any point of a run, and a bar that finds a
\* position open and does not close it leaves that position's entry_date and
\* entry_price as they were, whatever the bar's signal.
C2_SinglePosition ==
    /\ [](Len(open_position) <= 1 /\ OpenCount <= 1)
    /\ [][ ( /\ pc = "loop" /\ pc' = "loop"
             /\ open_position # <<>>
             /\ positions' = positions )
           => open_position' = open_position ]_vars

\* C2 witness: a BUY bar was processed while a position entered earlier stayed open.
C2_Witness ==
    /\ pc = "loop"
    /\ row_idx > 1
    /\ data[row_idx - 1].signal = "BUY"
    /\ open_position # <<>>
    /\ open_position[1].entry_date < data[row_idx - 1].date

\* C3: when run() has returned no position is open; a position left open by the last
\* bar is in the ledger, closed at the last bar's date and slippage-adjusted close with
\* exit_reason end_of_data; and the ledger holds exactly one closed trade per entry:
\* its trades start on distinct BUY bars, and every BUY bar either starts a trade or
\* falls inside one.
C3_EndOfData ==
    pc = "done" =>
        /\ OpenCount = 0
        /\ result # <<>> /\ result[1].trades = positions
        /\ \A i \in 1..Len(positions) :
              LET p == positions[i] IN
              /\ p.closed
              /\ RowAt(p.entry_date).signal = "BUY"
              /\ p.entry_price = EntryPrice(RowAt(p.entry_date).close)
              /\ \A j \in 1..Len(positions) : j # i => positions[j].entry_date # p.entry_date
              /\ p.exit_reason = "end_of_data" =>
                    /\ i = Len(positions)
                    /\ p.exit_date = data[Len(data)].date
                    /\ p.exit_price = ExitPrice(data[Len(data)].close)
              /\ (i = Len(positions) /\ open_position # <<>>) =>
                    /\ p = open_position[1]
                    /\ p.exit_reason = "end_of_data"
        /\ \A k \in 1..Len(data) :
              data[k].signal = "BUY" =>
                  \E i \in 1..Len(positions) :
                      /\ positions[i].entry_date <= data[k].date
                      /\ data[k].date <= positions[i].exit_date

\* C3 witness: a run with slippage has returned after force-closing a position that
\* was opened before the last bar.
C3_Witness ==
    /\ pc = "done"
    /\ backtester.slippage > 0
    /\ positions # <<>>
    /\ positions[Len(positions)].exit_reason = "end_of_data"
    /\ positions[Len(positions)].entry_date < data[Len(data)].date
    /\ Len(positions) > 1

\* The scenario of C4: no slippage, stop_loss_pct = 0.05, take_profit_pct = 0.10, and
\* position p entered at $100 on a bar directly followed by a close of $94 (so the
\* path reaches $94 before it reaches $111).
C4_Scenario(p) ==
    /\ backtester.slippage = 0
    /\ stop_loss_pct = 5
    /\ take_profit_pct = 10
    /\ p.entry_price = 100 * 100
    /\ p.entry_date < Len(data)
    /\ RowAt(p.entry_date + 1).close = 94

\* C4: in that scenario the trade is closed as stop_loss at the stop level,
\* exit_price = $95 = entry_price * (1 - stop_loss_pct), and never as take_profit.
C4_StopLossAtStopLevel ==
    pc = "done" =>
        \A i \in 1..Len(positions) :
            C4_Scenario(positions[i]) =>
                /\ positions[i].exit_reason = "stop_loss"
                /\ positions[i].exit_price * 100 = positions[i].entry_price * (100 - 5)

\* The part of C4 the code does satisfy: the exit_reason is stop_loss.
C4_ReasonIsStopLoss ==
    pc = "done" =>
        \A i \in 1..Len(positions) :
            C4_Scenario(positions[i]) => positions[i].exit_reason = "stop_loss"

\* ------------------------------------------ align_timeframe_signals, driven
\* The ascending sequence of the dates of a set.
RECURSIVE Ascending(_)
Ascending(S) ==
    IF S = {} THEN <<>>
    ELSE LET m == CHOOSE x \in S : \A y \in S : x <= y
         IN <<m>> \o Ascending(S \ {m})

Reverse(s) == [k \in 1..Len(s) |-> s[Len(s) + 1 - k]]

\* A base frame: one 'close' column, rows in ascending date order (as loaded).
BaseFrame(dates) ==
    [cols |-> {"close"},
     rows |-> [k \in 1..Len(dates) |-> [date |-> dates[k], cells |-> [c \in {"close"} |-> "c"]]]]

\* A higher-timeframe frame with the given columns; vals maps each of its dates to the
\* value every column has on that row.
HigherFrame(dates, vals, cols) ==
    [cols |-> cols,
     rows |-> [k \in 1..Len(dates) |->
                 [date |-> dates[k], cells |-> [c \in cols |-> vals[dates[k]]]]]]

InitAlign ==
    /\ BacktestIdle
    /\ StrategyIdle
    /\ ScanIdle
    /\ RankIdle
    /\ ResampleIdle
    /\ SetupIdle
    /\ \E D \in SUBSET (1..MaxDate) : base_df = BaseFrame(Ascending(D))
    /\ \E D \in SUBSET (1..MaxDate), descending \in BOOLEAN, cols \in {{"setup_valid"}, {"signal"}} :
          \E vals \in [D -> {"true", "false"}] :
              higher_timeframe_df =
                  HigherFrame(IF descending THEN Reverse(Ascending(D)) ELSE Ascending(D),
                              vals, cols)
    /\ signal_column = "setup_valid"
    /\ base_with_signals = <<>>

\* One call of align_timeframe_signals(base_df, higher_timeframe_df, tf, signal_column).
Align ==
    /\ base_with_signals = <<>>
    /\ signal_column # ""
    /\ base_with_signals' =
           <<AlignTimeframeSignals(base_df, higher_timeframe_df, signal_column)>>
    /\ UNCHANGED <<base_df, higher_timeframe_df, signal_column, btvars, stvars, scvars, rkvars, rsvars, suvars>>

NextAlign == Align

\* ----------------------------------------- claims on align_timeframe_signals
\* The dates of the higher-timeframe rows that are on or before date d.
NotAfter(d) ==
    {higher_timeframe_df.rows[j].date : j \in
        {j \in 1..Len(higher_timeframe_df.rows) : higher_timeframe_df.rows[j].date <= d}}

HigherValueAt(d) ==
    LET j == CHOOSE j \in 1..Len(higher_timeframe_df.rows) :
                 higher_timeframe_df.rows[j].date = d
    IN higher_timeframe_df.rows[j].cells[signal_column]

\* C5: after the alignment the base rows are the same rows in the same order, and the
\* value merged onto each is the value of the latest higher-timeframe row dated on or
\* before it (never of a later row), or null when there is no such row.
C5_NoLookAhead ==
    (base_with_signals # <<>> /\ HasColumn(higher_timeframe_df, signal_column)) =>
        LET out == base_with_signals[1] IN
        /\ Dates(out) = Dates(base_df)
        /\ HasColumn(out, signal_column)
        /\ \A k \in 1..Len(out.rows) :
              LET d == out.rows[k].date
                  v == out.rows[k].cells[signal_column]
              IN /\ out.rows[k].cells["close"] = base_df.rows[k].cells["close"]
                 /\ IF NotAfter(d) = {} THEN v = "null"
                    ELSE v = HigherValueAt(CHOOSE x \in NotAfter(d) : \A y \in NotAfter(d) : y <= x)

\* C5 witness: an aligned base row that has higher-timeframe rows both before and
\* after it, carrying different values, and another base row that precedes them all.
C5_Witness ==
    /\ base_with_signals # <<>>
    /\ HasColumn(higher_timeframe_df, signal_column)
    /\ \E k \in 1..Len(base_df.rows) :
          LET d == base_df.rows[k].date IN
          \E a, b \in 1..Len(higher_timeframe_df.rows) :
              /\ higher_timeframe_df.rows[a].date < d
              /\ higher_timeframe_df.rows[b].date > d
              /\ higher_timeframe_df.rows[a].cells[signal_column]
                   # higher_timeframe_df.rows[b].cells[signal_column]
    /\ \E k \in 1..Len(base_df.rows) : NotAfter(base_df.rows[k].date) = {}
    /\ \E k \in 1..Len(base_df.rows), j \in 1..Len(higher_timeframe_df.rows) :
          base_df.rows[k].date = higher_timeframe_df.rows[j].date

SpecAlign == InitAlign /\ [][NextAlign]_vars

\* ------------------------------------------ claims on strategies and executor
\* The strategy classes of the repository (a caller's own subclass is not one).
InRepository == strategy.kind \in {"LibraryStrategy", "CompositeStrategy"}

SignalRows(df) ==
    {k \in 1..Len(df.rows) : HasColumn(df, "signal") /\ Cell(df, k, "signal") \in {"BUY", "SELL"}}

SetupValidOn(df, k) == HasColumn(df, "setup_valid") /\ Cell(df, k, "setup_valid") = "true"

C6_RunSignalOnlyWhenSetupValid ==
    (InRepository /\ outcome.ok /\ call.op \in {"run", "execute_strategy"}) =>
        \A k \in SignalRows(outcome.df) : SetupValidOn(outcome.df, k)

\* A run that returned a series with a BUY row (on which the setup is then valid).
C6_RunWitness ==
    /\ InRepository /\ outcome.ok /\ call.op \in {"run", "execute_strategy"}
    /\ SignalRows(outcome.df) # {}
    /\ \E k \in 1..Len(outcome.df.rows) : Cell(outcome.df, k, "setup_valid") # "true"

\* C7: the mode flag of every strategy constructed agrees with whether its steps list
\* is non-empty.
C7_ModeAgreesWithSteps ==
    strategy.kind # "none" => (strategy._use_expandable_mode <=> TruthySteps(strategy))

\* The part of C7 that holds: run and the executor never mix the two pipelines, and a
\* strategy constructed without steps runs the legacy one only.
C7_OnePipelinePerCall ==
    (call.op \in {"run", "execute_strategy"}) =>
        /\ \A i, j \in 1..Len(outcome.trace) : outcome.trace[i].via = outcome.trace[j].via
        /\ ~TruthySteps(strategy) =>
              \A i \in 1..Len(outcome.trace) : outcome.trace[i].via = "legacy"

\* C8: a series that run returns has the required column of every step that ran.
C8_MissingColumnFails ==
    (call.op = "run" /\ outcome.ok) =>
        \A i \in 1..Len(outcome.trace) :
            HasColumn(outcome.df, RequiredColumn[outcome.trace[i].name])

\* The part of C8 that holds: the legacy pipeline returns nothing without setup_valid
\* and signal, and runs no later step once one of them is missing.
C8_LegacySetupAndTriggerChecked ==
    (call.op = "run" /\ ~strategy._use_expandable_mode) =>
        /\ outcome.ok => HasColumn(outcome.df, "setup_valid") /\ HasColumn(outcome.df, "signal")
        /\ (strategy.kind = "UserStrategy" /\ "setup_valid" \notin strategy.publishes) =>
              (~outcome.ok /\ Len(outcome.trace) = 1)

UnknownTagErrors ==
    {"ValueError: Unknown setup type", "ValueError: Unknown trigger type",
     "ValueError: Unknown exit type", "ValueError: Unknown candle pattern",
     "ValueError: Unknown crossover type", "ValueError: Unsupported indicator for threshold"}

\* C9: every component of a strategy that from_requirements_json constructed carries a
\* tag of the closed set of its role, and no execute_step on it raises an unknown-type
\* or unknown-variant error.
C9_UnknownTagsRejectedAtConstruction ==
    /\ \A key \in DOMAIN strategy.components :
          strategy.components[key].type \in
              (IF key = "setup" THEN SetupTypes
               ELSE IF key = "trigger" THEN TriggerTypes ELSE ExitTypes)
    /\ (call.op = "execute_step" /\ ~outcome.ok) => outcome.error \notin UnknownTagErrors

\* The part of C9 that holds: a tag outside all three closed sets never gets past the
\* constructor.
C9_ForeignTagsRejected ==
    \A key \in DOMAIN strategy.components :
        strategy.components[key].type \in SetupTypes \cup TriggerTypes \cup ExitTypes

\* The timeframes the call's load stored.
Loaded == LoadMultiTimeframeData(call.timeframes, call.source)

Runnable(step) == step.enabled /\ step.timeframe \in Loaded

\* The execute_step calls of the enabled steps whose timeframe was loaded, in order.
ExpectedTrace ==
    LET steps == SelectSeq(strategy.steps[1], Runnable)
    IN [k \in 1..Len(steps) |-> Called("execute_step", steps[k].step_name)]

IsPrefix(s, t) == Len(s) <= Len(t) /\ \A k \in 1..Len(s) : s[k] = t[k]

StepSkipped ==
    /\ TruthySteps(strategy)
    /\ \E k \in 1..Len(strategy.steps[1]) :
          strategy.steps[1][k].enabled /\ strategy.steps[1][k].timeframe \notin Loaded

\* C10: execute_strategy raises when the base timeframe was not loaded; when it was and
\* a step's own timeframe was not, exactly the other enabled steps run, in order, and a
\* series is returned (unless one of those steps itself raises).
C10_FailurePolicy ==
    (call.op = "execute_strategy") =>
        /\ call.base_timeframe \notin Loaded => ~outcome.ok
        /\ (call.base_timeframe \in Loaded /\ StepSkipped) =>
              \/ outcome.ok /\ outcome.trace = ExpectedTrace
              \/ ~outcome.ok /\ outcome.trace # <<>> /\ IsPrefix(outcome.trace, ExpectedTrace)

\* The part of C10 that holds: no series without the base timeframe, and the skipping
\* policy for the strategies the executor runs step by step.
C10_PolicyInExpandableMode ==
    (call.op = "execute_strategy") =>
        /\ call.base_timeframe \notin Loaded => (~outcome.ok /\ outcome.trace = <<>>)
        /\ (call.base_timeframe \in Loaded /\ StepSkipped /\ strategy._use_expandable_mode) =>
              (outcome.ok /\ outcome.trace = ExpectedTrace)

\* The prepared frame of a timeframe, read back from the series returned: its rows
\* carry the indicator columns of the prepared base frame.
PreparedFrame(tf) ==
    Frame(tf, [k \in 1..Len(outcome.df.rows) |->
                  [setup_cond   |-> Cell(outcome.df, k, "setup_cond"),
                   trigger_cond |-> Cell(outcome.df, k, "trigger_cond"),
                   exit_cond    |-> Cell(outcome.df, k, "exit_cond")]])

\* The output of step j of the strategy on a fresh prepared copy of its timeframe.
FreshOutput(j) ==
    ExecuteStepOf(strategy, strategy.steps[1][j],
                  PreparedFrame(strategy.steps[1][j].timeframe)).df

\* The last step executed on the base timeframe, 0 when there is none.
LastBaseStep ==
    LET ran == {j \in 1..Len(strategy.steps[1]) :
                   /\ Runnable(strategy.steps[1][j])
                   /\ strategy.steps[1][j].timeframe = call.base_timeframe}
    IN IF ran = {} THEN 0 ELSE CHOOSE j \in ran : \A i \in ran : i <= j

\* The series acc extended by the new columns of the steps executed from j on.
RECURSIVE MergedFrom(_, _)
MergedFrom(acc, j) ==
    IF j > Len(strategy.steps[1]) THEN acc
    ELSE IF ~Runnable(strategy.steps[1][j]) THEN MergedFrom(acc, j + 1)
    ELSE MergedFrom(AlignNewColumns(acc, FreshOutput(j), FreshOutput(j).cols \ acc.cols),
                    j + 1)

ExpandableReturned ==
    /\ call.op = "execute_strategy"
    /\ outcome.ok
    /\ strategy._use_expandable_mode
    /\ TruthySteps(strategy)

RuleClosed == Cardinality({i \in 1..Len(positions) : positions[i].exit_reason # "end_of_data"})

ForceClosed == Cardinality({i \in 1..Len(positions) : positions[i].exit_reason = "end_of_data"})

\* C18: when run() is done every trade has been charged the commission exactly twice,
\* whatever its exit reason: final_capital = initial_capital + the rescaled P&L of the
\* trades - 2 * commission * (number of trades).
C18_TwoCommissionsPerTrade ==
    pc = "done" =>
        /\ capital.realized = Len(positions)
        /\ capital.fees = 2 * Len(positions)
        /\ result[1].final_capital = capital

\* What holds of the code: a trade closed by a rule is charged three commissions (one
\* at entry, two at exit), a force-closed one two.
C18_ThreeCommissionsOnRuleExit ==
    pc = "done" =>
        /\ capital.realized = Len(positions)
        /\ capital.fees = 3 * RuleClosed + 2 * ForceClosed
        /\ result[1].final_capital = capital

\* The conditions checked before the time-based one.
EarlierHit(p, row) ==
    StopLossHit(p, row.close) \/ TakeProfitHit(p, row.close) \/ TrailingStopHit(p, row.close)

\* C19 as stated: a position is closed as time_based only on a bar at which its holding
\* period exceeds max_holding_days.
C19_ClosedWhenExceeded ==
    Running =>
        \A i \in 1..Len(positions) :
            positions[i].exit_reason = "time_based" =>
                positions[i].holding_days > max_holding_days

\* C19 as amended: with max_holding_days = N set and no earlier condition satisfied, a
\* position is closed as time_based on the first bar at which its holding period has
\* reached N (is N or more), and never as time_based on a bar at which it is below N.
C19_ClosedWhenReached ==
    Running =>
        /\ \A i \in 1..Len(positions) :
              LET p == positions[i] IN
              /\ p.exit_reason = "time_based" =>
                    /\ max_holding_days # 0
                    /\ p.holding_days >= max_holding_days
              /\ ( /\ p.exit_reason # "end_of_data"
                   /\ max_holding_days # 0
                   /\ p.holding_days >= max_holding_days
                   /\ ~EarlierHit(p, RowAt(p.exit_date)) ) => p.exit_reason = "time_based"
              /\ \A k \in 1..Len(data) :
                    ( /\ data[k].date > p.entry_date
                      /\ \/ data[k].date < p.exit_date
                         \/ p.exit_reason = "end_of_data" )
                    => (max_holding_days = 0 \/ data[k].date - p.entry_date < max_holding_days)
        /\ (open_position # <<>> /\ IsOpen(open_position[1])) =>
              \A k \in 1..(row_idx - 1) :
                  data[k].date > open_position[1].entry_date
                  => (max_holding_days = 0
                      \/ data[k].date - open_position[1].entry_date < max_holding_days)

\* A trade closed as time_based on the bar at which it has been held exactly N days.
C19_Witness ==
    /\ Running
    /\ \E i \in 1..Len(positions) :
          /\ positions[i].exit_reason = "time_based"
          /\ positions[i].holding_days = max_holding_days
          /\ ~ExitSignalHit(RowAt(positions[i].exit_date))

\* A position entered on the bar dated d: the next ledger entry after trade i, or the
\* position held by run().
EnteredOn(i, d) ==
    IF i < Len(positions) THEN positions[i + 1].entry_date = d
    ELSE open_position # <<>> /\ open_position[1].entry_date = d

\* C25: within one bar exits are checked before entries.  A trade closed by an exit
\* rule is closed on a bar after its entry bar (only the end_of_data close can fall on
\* the entry bar), and when a rule closes a trade on a bar whose signal is BUY the
\* next position is entered on that same bar.
C25_ExitsBeforeEntries ==
    Running =>
        \A i \in 1..Len(positions) :
            LET p == positions[i] IN
            /\ p.exit_date >= p.entry_date
            /\ p.exit_reason # "end_of_data" =>
                  /\ p.exit_date > p.entry_date
                  /\ RowAt(p.exit_date).signal = "BUY" => EnteredOn(i, p.exit_date)
                  /\ RowAt(p.exit_date).signal # "BUY" => ~EnteredOn(i, p.exit_date)

\* C25 witness: a rule closed a trade on a BUY bar, the next trade was entered on that
\* bar, and a trade was force-closed on its own entry bar.
C25_Witness ==
    /\ pc = "done"
    /\ \E i \in 1..Len(positions) :
          /\ positions[i].exit_reason \notin {"end_of_data"}
          /\ RowAt(positions[i].exit_date).signal = "BUY"
          /\ EnteredOn(i, positions[i].exit_date)
    /\ \E i \in 1..Len(positions) :
          /\ positions[i].exit_reason = "end_of_data"
          /\ positions[i].exit_date = positions[i].entry_date

C26_TrailingStopNeverFires ==
    /\ \A i \in 1..Len(positions) : positions[i].exit_reason # "trailing_stop"
    /\ \A i \in 1..Len(positions), k \in 1..Len(data) :
          ~TrailingStopHit(positions[i], data[k].close)
    /\ \A i, j \in 1..Len(returned) : returned[i].result.trades = returned[j].result.trades

\* C26 witness: the same run has returned with trailing_stop_pct set and without it,
\* with a trade held while the close fell more than trailing_stop_pct below its entry.
C26_Witness ==
    /\ Len(returned) > 1
    /\ \E i, j \in 1..Len(returned) :
          returned[i].trailing_stop_pct = 0 /\ returned[j].trailing_stop_pct > 0
    /\ stop_loss_pct = 0
    /\ \E i \in 1..Len(positions) :
          /\ positions[i].exit_reason = "end_of_data"
          /\ positions[i].exit_price * 100 < positions[i].entry_price * (100 - 3)

\* C27: every BacktestResult returned by run() has equity_curve[0] = initial_capital,
\* the last element of equity_curve = final_capital and total_return = final_capital -
\* initial_capital; without a trade final_capital = initial_capital and total_return
\* is 0.  (Amounts are kept relative to initial_capital.)
C27_CurveEndsAtCapital ==
    \A i \in 1..Len(returned) :
        LET r == returned[i].result IN
        /\ r.equity_curve # <<>>
        /\ r.equity_curve[1] = InitialCapital
        /\ r.equity_curve[Len(r.equity_curve)] = r.final_capital
        /\ r.total_return = r.final_capital
        /\ r.trades = <<>> => (r.final_capital = InitialCapital /\ r.total_trades = 0)

\* C27 witness: a result whose last trade was force-closed at the end of the data,
\* after a trade closed by a rule.
C27_Witness ==
    /\ pc = "done"
    /\ result # <<>>
    /\ Len(result[1].trades) > 1
    /\ result[1].trades[Len(result[1].trades)].exit_reason = "end_of_data"
    /\ result[1].final_capital.fees > 3
    /\ returned[Len(returned)].result = result[1]

ExitFields == {"exit_date", "exit_price", "pnl", "pnl_pct", "holding_days", "exit_reason"}

\* C28: the ledger holds only closed positions, each with all six exit fields set,
\* while the position still open has none of them; the trades are listed in the order
\* they were closed and do not overlap: entry_date <= exit_date for each, and a
\* trade's exit_date <= the entry_date of the next one.
C28_LedgerOfClosedTrades ==
    Running =>
        /\ \A i \in 1..Len(positions) :
              /\ positions[i].closed
              /\ ExitFields \subseteq DOMAIN positions[i]
              /\ positions[i].entry_date <= positions[i].exit_date
              /\ i < Len(positions) =>
                    /\ positions[i].exit_date <= positions[i + 1].entry_date
                    /\ positions[i].exit_date <= positions[i + 1].exit_date
        /\ (pc = "loop" /\ open_position # <<>>) =>
              /\ IsOpen(open_position[1])
              /\ ExitFields \cap DOMAIN open_position[1] = {}
              /\ positions # <<>> =>
                    positions[Len(positions)].exit_date <= open_position[1].entry_date
        /\ pc = "done" => result[1].trades = positions

\* C28 witness: two trades are in the ledger, the second entered on the bar that
\* closed the first, and a third position is open.
C28_Witness ==
    /\ pc = "loop"
    /\ Len(positions) > 1
    /\ positions[1].exit_date = positions[2].entry_date
    /\ open_position # <<>>
    /\ IsOpen(open_position[1])

\* The trades of a ledger with the given sign of pnl (-1, 0, 1).
PnlCount(ps, sign) ==
    Cardinality({k \in 1..Len(ps) :
                    CASE sign = 1 -> ps[k].pnl > 0
                      [] sign = 0 -> ps[k].pnl = 0
                      [] OTHER    -> ps[k].pnl < 0})

\* C30: a closed trade with pnl exactly 0 counts in total_trades but neither in
\* winning_trades nor in losing_trades: winning_trades + losing_trades <= total_trades,
\* with equality exactly when no trade has zero pnl, and win_rate is winning_trades
\* over all of total_trades.
C30_FlatTradeInNeitherBucket ==
    \A i \in 1..Len(returned) :
        LET r == returned[i].result IN
        r.trades # <<>> =>
            /\ r.total_trades = Len(r.trades)
            /\ r.winning_trades = PnlCount(r.trades, 1)
            /\ r.losing_trades = PnlCount(r.trades, -1)
            /\ r.winning_trades + r.losing_trades <= r.total_trades
            /\ (r.winning_trades + r.losing_trades = r.total_trades)
                  <=> (PnlCount(r.trades, 0) = 0)
            /\ r.win_rate = [num |-> r.winning_trades, den |-> r.total_trades]

\* C30 witness: a result with a winning trade, a losing trade and a trade of pnl 0.
C30_Witness ==
    /\ pc = "done"
    /\ result # <<>>
    /\ returned[Len(returned)].result = result[1]
    /\ PnlCount(result[1].trades, 0) > 0
    /\ result[1].winning_trades > 0
    /\ result[1].losing_trades > 0

\* ------------------------------------------------- DailyScanner, driven
\* _score_multi_timeframe_signal(symbol, strategy, scan_date, timeframes) has been
\* called and the statements before its loop have run; the call is kept as a batch of
\* one symbol and one profile.
ScoreCalled ==
    \E symbol \in Symbols, strat \in ScanStrategies, timeframes \in ProfileLists,
       store \in Stores :
       scan_call = [NoScan EXCEPT !.op = "score", !.pc = "loop", !.symbols = <<symbol>>,
                                  !.pick_profiles = <<Profile("", strat, timeframes)>>,
                                  !.stores = [sym \in {symbol} |-> store], !.k = 1]

\* scan_symbols(symbols, strategies, scan_date, rds_client) has been called.
ScanSymbolsCalled ==
    \E symbols \in SymbolLists, strategies \in StrategyLists,
       stores \in [Symbols -> BatchStores] :
       scan_call = [NoScan EXCEPT !.op = "scan_symbols", !.pc = "call",
                                  !.symbols = symbols, !.strategies = strategies,
                                  !.stores = stores]

\* scan_symbols_by_pick_profiles(symbols, pick_profiles, scan_date, rds_client) has
\* been called.
ScanProfilesCalled ==
    \E symbols \in SymbolLists, pick_profiles \in ProfileListsOfBatch,
       stores \in [Symbols -> BatchStores] :
       scan_call = [NoScan EXCEPT !.op = "scan_symbols_by_pick_profiles", !.pc = "call",
                                  !.symbols = symbols, !.pick_profiles = pick_profiles,
                                  !.stores = stores]

InitScan ==
    /\ BacktestIdle
    /\ AlignIdle
    /\ StrategyIdle
    /\ RankIdle
    /\ ResampleIdle
    /\ SetupIdle
    /\ ScoreCalled \/ ScanSymbolsCalled \/ ScanProfilesCalled
    /\ scan_acc = NoAccumulators
    /\ scan_out = NoScanOut

\* One iteration of `for timeframe in timeframes`.
ScoreNextTimeframe ==
    /\ scan_call.op = "score" /\ scan_call.pc = "loop"
    /\ scan_call.k <= Len(scan_call.pick_profiles[1].timeframes)
    /\ LET profile == scan_call.pick_profiles[1]
           timeframe == profile.timeframes[scan_call.k]
       IN scan_acc' = ScoreTimeframe(scan_acc, profile.strategy, timeframe,
                                     BuildTermWeights(profile.timeframes)[timeframe],
                                     scan_call.stores[scan_call.symbols[1]])
    /\ scan_call' = [scan_call EXCEPT !.k = @ + 1]
    /\ UNCHANGED <<scan_out, btvars, alvars, stvars, rkvars, rsvars, suvars>>

\* The statements after the loop.
ScoreFinish ==
    /\ scan_call.op = "score" /\ scan_call.pc = "loop"
    /\ scan_call.k > Len(scan_call.pick_profiles[1].timeframes)
    /\ scan_out' = ScanReturned(ScoreReturn(scan_call.symbols[1],
                                            scan_call.pick_profiles[1].strategy,
                                            scan_call.pick_profiles[1].timeframes, scan_acc))
    /\ scan_call' = [scan_call EXCEPT !.pc = "done"]
    /\ UNCHANGED <<scan_acc, btvars, alvars, stvars, rkvars, rsvars, suvars>>

\* scanner.scan_symbols(...), from the call to the return.
CallScanSymbols ==
    /\ scan_call.op = "scan_symbols" /\ scan_call.pc = "call"
    /\ scan_out' = ScanSymbols(scan_call.symbols, scan_call.strategies, scan_call.stores)
    /\ scan_call' = [scan_call EXCEPT !.pc = "done"]
    /\ UNCHANGED <<scan_acc, btvars, alvars, stvars, rkvars, rsvars, suvars>>

\* scanner.scan_symbols_by_pick_profiles(...), from the call to the return.
CallScanSymbolsByPickProfiles ==
    /\ scan_call.op = "scan_symbols_by_pick_profiles" /\ scan_call.pc = "call"
    /\ scan_out' = ScanSymbolsByPickProfiles(scan_call.symbols, scan_call.pick_profiles,
                                             scan_call.stores)
    /\ scan_call' = [scan_call EXCEPT !.pc = "done"]
    /\ UNCHANGED <<scan_acc, btvars, alvars, stvars, rkvars, rsvars, suvars>>

NextScan ==
    \/ ScoreNextTimeframe
    \/ ScoreFinish
    \/ CallScanSymbols
    \/ CallScanSymbolsByPickProfiles

SpecScan == InitScan /\ [][NextScan]_vars

\* ---------------------------------------------------- claims on the scans
ScoreDone == scan_call.op = "score" /\ scan_call.pc = "done"

BatchDone(op) == scan_call.op = op /\ scan_call.pc = "done"

\* The (symbol, profile) units of a pick-profile batch, by their positions.
ProfileUnits ==
    {u \in (1..Len(scan_call.symbols)) \X (1..Len(scan_call.pick_profiles)) : TRUE}

\* The weighted_score the loop of a unit ends with.
UnitScore(u) ==
    ScoreLoop(NoAccumulators, scan_call.pick_profiles[u[2]].strategy,
              scan_call.pick_profiles[u[2]].timeframes, 1,
              scan_call.stores[scan_call.symbols[u[1]]]).weighted_score

\* C11: a pick-profile scan returns a SignalResult exactly when weighted_score > 0; the
\* result is a BUY whose confidence is weighted_score / total_weight clamped to [0, 1],
\* so 0 < confidence <= 1; profiles with weighted_score <= 0 (SELL-dominant, all-HOLD,
\* tied) leave no entry in the output of scan_symbols_by_pick_profiles.
C11_RetainedIffPositive ==
    /\ ScoreDone =>
          LET weighted_score == scan_acc.weighted_score
              total_weight   == TotalWeight(scan_call.pick_profiles[1].timeframes)
          IN /\ ~scan_out.raised
             /\ (scan_out.signals # <<>>) <=> (weighted_score > 0)
             /\ scan_out.signals # <<>> =>
                   LET signal == scan_out.signals[1]
                   IN /\ Len(scan_out.signals) = 1
                      /\ signal.signal = "BUY"
                      /\ signal.confidence.den > 0
                      /\ signal.confidence.num * total_weight =
                            signal.confidence.den *
                               (IF weighted_score > total_weight THEN total_weight
                                ELSE weighted_score)
                      /\ 0 < signal.confidence.num
                      /\ signal.confidence.num <= signal.confidence.den
    /\ BatchDone("scan_symbols_by_pick_profiles") =>
          /\ Len(scan_out.signals) = Cardinality({u \in ProfileUnits : UnitScore(u) > 0})
          /\ \A k \in 1..Len(scan_out.signals) :
                scan_out.signals[k].metadata.weighted_score > 0

\* A profile retained with a confidence strictly between 0 and 1.
C11_Witness ==
    /\ ScoreDone
    /\ scan_out.signals # <<>>
    /\ scan_acc.weighted_score > 0
    /\ scan_acc.weighted_score < TotalWeight(scan_call.pick_profiles[1].timeframes)

\* The scanner's docstring: "resampled timeframes are computed at use from 1d" (as
\* load_ohlcv_by_timeframe of inputs.py does): every timeframe of a symbol has candles
\* when its 1d bars load.
ResamplingSource(store) == [tf \in ProfileTimeframes |-> store.source]

\* The latest vote of a timeframe: the latest BUY/SELL signal of the strategy run on the
\* candles of that timeframe, HOLD when there is none.
LatestVote(strat, timeframe, store) ==
    LET r == ExecuteStrategyOf(strat, {timeframe}, timeframe, ResamplingSource(store),
                               ScanFrames(store))
    IN IF ~r.ok \/ ~HasRows(r.df) THEN "HOLD"
       ELSE IF GetLatestSignal(r.df).kind = "signal" THEN GetLatestSignal(r.df).signal
       ELSE "HOLD"

\* The sum of +i for the timeframes ti, i >= k, voting BUY and -i for those voting SELL.
RECURSIVE VoteSum(_, _, _, _)
VoteSum(strat, timeframes, store, k) ==
    IF k > Len(timeframes) THEN 0
    ELSE (IF LatestVote(strat, timeframes[k], store) = "BUY" THEN k
          ELSE IF LatestVote(strat, timeframes[k], store) = "SELL" THEN 0 - k
          ELSE 0) + VoteSum(strat, timeframes, store, k + 1)

\* The sum of the weights of the votes recorded for the timeframes ti, i >= k.
RECURSIVE RecordedSum(_, _, _)
RecordedSum(votes, timeframes, k) ==
    IF k > Len(timeframes) THEN 0
    ELSE (IF timeframes[k] \notin DOMAIN votes THEN 0
          ELSE IF votes[timeframes[k]].signal = "BUY" THEN k
          ELSE IF votes[timeframes[k]].signal = "SELL" THEN 0 - k
          ELSE 0) + RecordedSum(votes, timeframes, k + 1)

Distinct(timeframes) ==
    \A i, j \in 1..Len(timeframes) : timeframes[i] = timeframes[j] => i = j

\* C12: for distinct timeframes t1..tn the weight of ti is i, total_weight is
\* n(n+1)/2, and weighted_score is the sum of +i over the timeframes whose latest vote
\* is BUY and of -i over those whose latest vote is SELL.
C12_WeightedVote ==
    ScoreDone /\ Distinct(scan_call.pick_profiles[1].timeframes) =>
        LET profile == scan_call.pick_profiles[1]
            n == Len(profile.timeframes)
        IN /\ \A i \in 1..n : BuildTermWeights(profile.timeframes)[profile.timeframes[i]] = i
           /\ TotalWeight(profile.timeframes) + TotalWeight(profile.timeframes) = n * (n + 1)
           /\ scan_acc.weighted_score =
                 VoteSum(profile.strategy, profile.timeframes,
                         scan_call.stores[scan_call.symbols[1]], 1)

\* What holds of the code: the weights and total are as stated, and weighted_score sums
\* the votes of the timeframes the scan obtained a signal for, which are 1d alone.
C12_RecordedVotesWeighted ==
    ScoreDone /\ Distinct(scan_call.pick_profiles[1].timeframes) =>
        LET profile == scan_call.pick_profiles[1]
            n == Len(profile.timeframes)
        IN /\ \A i \in 1..n : BuildTermWeights(profile.timeframes)[profile.timeframes[i]] = i
           /\ TotalWeight(profile.timeframes) + TotalWeight(profile.timeframes) = n * (n + 1)
           /\ scan_acc.weighted_score = RecordedSum(scan_acc.votes, profile.timeframes, 1)
           /\ \A tf \in DOMAIN scan_acc.votes :
                 tf # "1d" => scan_acc.votes[tf].kind = "error"

\* ------------------------------------------------ claims on the batch scans
\* The (symbol, strategy) units of scan_symbols, by their positions.
SymbolUnits ==
    {u \in (1..Len(scan_call.symbols)) \X (1..Len(scan_call.strategies)) : TRUE}

\* The evaluation of a unit on its own, outside any batch.
UnitBody(u) ==
    ScanSymbolBody(scan_call.symbols[u[1]], scan_call.strategies[u[2]],
                   scan_call.stores[scan_call.symbols[u[1]]], "1d")

\* An entry that reports a failure: SignalResult has no field to carry one.
IsFailureEntry(entry) == "error" \in DOMAIN entry

\* C16: every (symbol, strategy) unit of scan_symbols whose evaluation raises has an
\* explicit failure entry in the result, which tells it from a unit without a signal.
C16_FailuresSurfaced ==
    BatchDone("scan_symbols") =>
        \A u \in SymbolUnits :
            UnitBody(u).raised =>
                \E k \in 1..Len(scan_out.signals) :
                    /\ IsFailureEntry(scan_out.signals[k])
                    /\ scan_out.signals[k].symbol = scan_call.symbols[u[1]]

\* What holds of the code: the result has an entry for the units that produced a
\* signal and for no other; a failed unit leaves nothing.
C16_FailedUnitsAbsent ==
    BatchDone("scan_symbols") =>
        /\ \A k \in 1..Len(scan_out.signals) : ~IsFailureEntry(scan_out.signals[k])
        /\ Len(scan_out.signals) =
              Cardinality({u \in SymbolUnits : ~UnitBody(u).raised /\ UnitBody(u).signals # <<>>})

\* The results of the units from u on that did not fail, in input order.
RECURSIVE SurvivorsFrom(_, _)
SurvivorsFrom(i, j) ==
    IF i > Len(scan_call.symbols) THEN <<>>
    ELSE IF j > Len(scan_call.strategies) THEN SurvivorsFrom(i + 1, 1)
    ELSE (IF UnitBody(<<i, j>>).raised THEN <<>> ELSE UnitBody(<<i, j>>).signals)
         \o SurvivorsFrom(i, j + 1)

\* The results of the (symbol, profile) units, each scored on its own, in input order.
RECURSIVE ProfileResultsFrom(_, _)
ProfileResultsFrom(i, j) ==
    IF i > Len(scan_call.symbols) THEN <<>>
    ELSE IF j > Len(scan_call.pick_profiles) THEN ProfileResultsFrom(i + 1, 1)
    ELSE LET profile == scan_call.pick_profiles[j]
             signal == ScoreMultiTimeframeSignal(scan_call.symbols[i], profile.strategy,
                           profile.timeframes, scan_call.stores[scan_call.symbols[i]])
         IN (IF signal = <<>> THEN <<>> ELSE <<WithPickType(signal[1], profile.pick_type)>>)
            \o ProfileResultsFrom(i, j + 1)

\* The positions among the first k - 1 timeframes of the profile scored whose
\* evaluation raised.
FailedBefore(k) ==
    {i \in 1..(k - 1) :
        TimeframeSignal(scan_call.pick_profiles[1].strategy,
                        scan_call.pick_profiles[1].timeframes[i],
                        scan_call.stores[scan_call.symbols[1]]).kind = "error"}

\* The accumulators after the timeframes from i to k - 1, the failed ones left out.
RECURSIVE ScoreWithout(_, _, _, _)
ScoreWithout(acc, failed, i, k) ==
    IF i >= k THEN acc
    ELSE LET profile == scan_call.pick_profiles[1]
         IN ScoreWithout(IF i \in failed THEN acc
                         ELSE ScoreTimeframe(acc, profile.strategy, profile.timeframes[i],
                                             BuildTermWeights(profile.timeframes)
                                                 [profile.timeframes[i]],
                                             scan_call.stores[scan_call.symbols[1]]),
                         failed, i + 1, k)

RECURSIVE PricedWeight(_, _)
PricedWeight(votes, keys) ==
    IF keys = {} THEN 0
    ELSE LET tf == CHOOSE t \in keys : TRUE
         IN (IF votes[tf].kind = "vote" /\ votes[tf].price > 0 THEN votes[tf].weight ELSE 0)
            + PricedWeight(votes, keys \ {tf})

\* C20: the price of a pick-profile SignalResult is sum(w_i * price_i) / sum(w_i) over
\* the timeframes that contributed a price; when they all report the price p it is p.
C20_PriceIsWeightedMean ==
    (ScoreDone /\ scan_out.signals # <<>>
        /\ Distinct(scan_call.pick_profiles[1].timeframes)) =>
        LET price == scan_out.signals[1].price
            priced == PricedWeight(scan_acc.votes, DOMAIN scan_acc.votes)
        IN /\ price.den > 0
           /\ price.num * priced = price.den * scan_acc.weighted_price
           /\ \A p \in {0, 100} :
                 ( /\ priced > 0
                   /\ \A tf \in DOMAIN scan_acc.votes :
                         scan_acc.votes[tf].kind = "vote" => scan_acc.votes[tf].price = p )
                 => price.num = p * price.den

\* What holds of the code: the sum is divided by the weights of all the timeframes of
\* the profile, voting or not.
C20_PriceOverTotalWeight ==
    (ScoreDone /\ scan_out.signals # <<>>) =>
        LET price == scan_out.signals[1].price
        IN /\ price.den > 0
           /\ price.num * TotalWeight(scan_call.pick_profiles[1].timeframes) =
                 price.den * scan_acc.weighted_price

\* The weights of the timeframes in keys voting BUY, minus those voting SELL: a
\* timeframe that failed, returned no data or has no BUY/SELL row counts 0, as a HOLD
\* vote does.
RECURSIVE VotedWeight(_, _, _)
VotedWeight(votes, weights, keys) ==
    IF keys = {} THEN 0
    ELSE LET tf == CHOOSE t \in keys : TRUE
         IN (IF tf \notin DOMAIN votes THEN 0
             ELSE IF votes[tf].signal = "BUY" THEN weights[tf]
             ELSE IF votes[tf].signal = "SELL" THEN 0 - weights[tf]
             ELSE 0) + VotedWeight(votes, weights, keys \ {tf})

\* The claim of C29 for the profile scanned and the result it returned.
FullConfidenceNeedsAllBuy(timeframes, signal, votes) ==
    LET weights == BuildTermWeights(timeframes)
    IN /\ signal.metadata.total_weight = SumValues(weights, DOMAIN weights)
       /\ \A tf \in DOMAIN votes : votes[tf].weight = weights[tf]
       /\ signal.metadata.weighted_score = VotedWeight(votes, weights, DOMAIN weights)
       /\ signal.confidence.num * signal.metadata.total_weight =
             signal.confidence.den * signal.metadata.weighted_score
       /\ signal.confidence.num = signal.confidence.den =>
             \A tf \in DOMAIN weights : tf \in DOMAIN votes /\ votes[tf].signal = "BUY"

C29_DistinctTimeframes ==
    (ScoreDone /\ scan_out.signals # <<>>
       /\ Distinct(scan_call.pick_profiles[1].timeframes)) =>
        FullConfidenceNeedsAllBuy(scan_call.pick_profiles[1].timeframes,
                                  scan_out.signals[1], scan_acc.votes)

\* --------------------------------------------------- rank_signals, driven
\* rank_signals(signals, top_k, unique_symbol) has been called.
InitRank ==
    /\ BacktestIdle
    /\ AlignIdle
    /\ StrategyIdle
    /\ ScanIdle
    /\ ResampleIdle
    /\ SetupIdle
    /\ rank_call \in [op : {"call"}, signals : SignalLists, top_k : 0..MaxTopK,
                      unique_symbol : BOOLEAN]
    /\ ranked = <<>>

\* scanner.rank_signals(...), from the call to the return.
CallRankSignals ==
    /\ rank_call.op = "call"
    /\ ranked' = RankSignals(rank_call.signals, rank_call.top_k, rank_call.unique_symbol)
    /\ rank_call' = [rank_call EXCEPT !.op = "rank_signals"]
    /\ UNCHANGED <<btvars, alvars, stvars, scvars, rsvars, suvars>>

NextRank == CallRankSignals

SpecRank == InitRank /\ [][NextRank]_vars

\* ------------------------------------------------- claims on rank_signals
Ranked == rank_call.op = "rank_signals"

\* Signal A of the spec: confidence 0.6, setup_valid, trigger_met, BUY.
IsA(signal) ==
    /\ signal.confidence = <<SixTenths>>
    /\ signal.setup_valid /\ signal.trigger_met /\ signal.signal = "BUY"

\* Signal B of the spec: confidence 0.5, every flag false.
IsB(signal) ==
    /\ signal.confidence = <<Half>>
    /\ ~signal.setup_valid /\ ~signal.trigger_met /\ signal.signal # "BUY"

\* C13: the ranking_score recorded is the composite score, at most 1.5: a signal with
\* confidence 0.6, setup_valid, trigger_met and BUY scores the double 1.0 exactly, one
\* with confidence 0.5 and no flag scores 0.5 exactly, and the first is ranked before
\* the second.
C13_RankingArithmetic ==
    Ranked =>
        \A k \in 1..Len(ranked) :
            /\ IsA(ranked[k]) => ranked[k].metadata.ranking_score = One
            /\ IsB(ranked[k]) => ranked[k].metadata.ranking_score = Half
            /\ ~FloatLess(OneAndAHalf, ranked[k].metadata.ranking_score)
            /\ \A j \in 1..Len(ranked) : IsA(ranked[j]) /\ IsB(ranked[k]) => j < k

\* B was given before A, and both are in the ranking.
C13_Witness ==
    /\ Ranked
    /\ \E i, j \in 1..Len(rank_call.signals) :
          i < j /\ IsB(rank_call.signals[i]) /\ IsA(rank_call.signals[j])
    /\ \E j, k \in 1..Len(ranked) : IsA(ranked[j]) /\ IsB(ranked[k])

\* C14: the ranking is in non-increasing score order, and with unique_symbol a symbol
\* appears at most once, as the highest-scoring signal given for it.
C14_DescendingAndUnique ==
    Ranked =>
        /\ \A j, k \in 1..Len(ranked) :
              j < k => ~FloatLess(ranked[j].metadata.ranking_score,
                                  ranked[k].metadata.ranking_score)
        /\ rank_call.unique_symbol =>
              /\ \A j, k \in 1..Len(ranked) : ranked[j].symbol = ranked[k].symbol => j = k
              /\ \A k \in 1..Len(ranked), i \in 1..Len(rank_call.signals) :
                    rank_call.signals[i].symbol = ranked[k].symbol =>
                       ~FloatLess(ranked[k].metadata.ranking_score,
                                  Score(rank_call.signals[i]))

\* Two signals of one symbol with different scores were given, the lower first, and
\* two symbols are ranked.
C14_Witness ==
    /\ Ranked /\ rank_call.unique_symbol
    /\ Len(ranked) >= 2
    /\ \E i, j \in 1..Len(rank_call.signals) :
          /\ i < j
          /\ rank_call.signals[i].symbol = rank_call.signals[j].symbol
          /\ FloatLess(Score(rank_call.signals[i]), Score(rank_call.signals[j]))

\* The candidates left after the optional per-symbol deduplication.
Candidates ==
    IF rank_call.unique_symbol
    THEN Cardinality({rank_call.signals[i].symbol : i \in 1..Len(rank_call.signals)})
    ELSE Len(rank_call.signals)

\* C15: for every top_k >= 0 the ranking has min(top_k, candidates) elements, hence at
\* most top_k.
C15_TruncatedToTopK ==
    Ranked =>
        /\ Len(ranked) <= rank_call.top_k
        /\ Len(ranked) = (IF rank_call.top_k < Candidates THEN rank_call.top_k
                          ELSE Candidates)

\* What holds of the code: the bound for top_k >= 1; with top_k = 0 a non-empty list
\* gives one element.
C15_TruncatedForPositiveTopK ==
    Ranked =>
        /\ rank_call.top_k >= 1 =>
              Len(ranked) = (IF rank_call.top_k < Candidates THEN rank_call.top_k
                             ELSE Candidates)
        /\ rank_call.top_k = 0 /\ rank_call.signals # <<>> => Len(ranked) = 1

\* --------------------------------------------------- resample_ohlcv, driven
MaxDay == 5
MaxInterval == 3

\* The candles drawn for a day.
Candles ==
    {[open |-> 10, high |-> 12, low |-> 9,  close |-> 11, volume |-> 1],
     [open |-> 11, high |-> 15, low |-> 10, close |-> 14, volume |-> 2],
     [open |-> 14, high |-> 14, low |-> 7,  close |-> 8,  volume |-> 4]}

\* The 1d frame with the candle chosen for each of the given days, in ascending or
\* descending order of date.
DailyFrame(days, candle, descending) ==
    LET sorted == Ascending(days)
    IN [k \in 1..Len(sorted) |->
           LET d == sorted[IF descending THEN Len(sorted) + 1 - k ELSE k]
           IN [date |-> d, open |-> candle[d].open, high |-> candle[d].high,
               low |-> candle[d].low, close |-> candle[d].close,
               volume |-> candle[d].volume]]

InitResample ==
    /\ BacktestIdle
    /\ AlignIdle
    /\ StrategyIdle
    /\ ScanIdle
    /\ RankIdle
    /\ SetupIdle
    /\ \E days \in SUBSET (1..MaxDay), candle \in [1..MaxDay -> Candles],
          descending \in BOOLEAN, interval_days \in 1..MaxInterval :
          resample_call = [op |-> "call", df_1d |-> DailyFrame(days, candle, descending),
                           interval_days |-> interval_days]
    /\ resample_out = <<>>

\* resample_ohlcv(df_1d, interval_days), from the call to the return.
CallResampleOhlcv ==
    /\ resample_call.op = "call"
    /\ resample_out' = <<ResampleOhlcv(resample_call.df_1d, resample_call.interval_days)>>
    /\ resample_call' = [resample_call EXCEPT !.op = "resample_ohlcv"]
    /\ UNCHANGED <<btvars, alvars, stvars, scvars, rkvars, suvars>>

NextResample == CallResampleOhlcv

SpecResample == InitResample /\ [][NextResample]_vars

Resampled == resample_call.op = "resample_ohlcv"

\* The input bars of the bucket of N days that starts on a date.
BucketBars(start) ==
    {i \in 1..Len(resample_call.df_1d) :
        /\ start <= resample_call.df_1d[i].date
        /\ resample_call.df_1d[i].date < start + resample_call.interval_days}

RECURSIVE VolumeOf(_)
VolumeOf(bars) ==
    IF bars = {} THEN 0
    ELSE LET i == CHOOSE x \in bars : TRUE
         IN resample_call.df_1d[i].volume + VolumeOf(bars \ {i})

\* C22: every bar of the input lies in the bucket of exactly one output row, the
\* output rows are in ascending order of date, and each output row has the open of
\* the earliest bar of its bucket, the highest high, the lowest low, the close of the
\* latest bar and the sum of the volumes of the bars of its bucket.
C22_ResamplingLaw ==
    Resampled =>
        LET bars == resample_call.df_1d
            out  == resample_out[1]
        IN /\ \A i \in 1..Len(bars) :
                 Cardinality({j \in 1..Len(out) : i \in BucketBars(out[j].date)}) = 1
           /\ \A j, k \in 1..Len(out) : j < k => out[j].date < out[k].date
           /\ \A j \in 1..Len(out) :
                 /\ BucketBars(out[j].date) # {}
                 /\ \E first, last \in BucketBars(out[j].date) :
                       /\ \A i \in BucketBars(out[j].date) :
                             /\ bars[first].date <= bars[i].date
                             /\ bars[i].date <= bars[last].date
                             /\ bars[i].high <= out[j].high
                             /\ bars[i].low >= out[j].low
                       /\ out[j].open = bars[first].open
                       /\ out[j].close = bars[last].close
                 /\ \E i \in BucketBars(out[j].date) : bars[i].high = out[j].high
                 /\ \E i \in BucketBars(out[j].date) : bars[i].low = out[j].low
                 /\ out[j].volume = VolumeOf(BucketBars(out[j].date))

\* A frame given in descending order with a gap was resampled into two or more
\* buckets of several days, one of which holds two bars whose closes differ.
C22_Witness ==
    /\ Resampled
    /\ resample_call.interval_days >= 2
    /\ Len(resample_call.df_1d) >= 3
    /\ resample_call.df_1d[1].date > resample_call.df_1d[2].date + 1
    /\ Len(resample_out[1]) >= 2
    /\ \E j \in 1..Len(resample_out[1]) :
          \E a, b \in BucketBars(resample_out[1][j].date) :
             /\ resample_call.df_1d[a].date < resample_call.df_1d[b].date
             /\ resample_call.df_1d[a].close # resample_call.df_1d[b].close

\* --------------------------------------------- setup steps on indicators, driven
MaxCloses == 4
\* The periods of the two averages of the Golden Cross (50 and 200 in the library),
\* bounded so that frames shorter and longer than both are drawn.
FastPeriod == 2
SlowPeriod == 3

CloseSeries == UNION {[1..n -> Prices] : n \in 0..MaxCloses}

ThresholdOperators == {"CROSS_ABOVE", "CROSS_BELOW", ">", "<", ">=", "<=", "=="}

ThresholdSetups ==
    [period : {FastPeriod, SlowPeriod}, operator : ThresholdOperators, value : Prices,
     indicator2 : {<<>>, <<SlowPeriod>>}]

InitSetup ==
    /\ BacktestIdle
    /\ AlignIdle
    /\ StrategyIdle
    /\ ScanIdle
    /\ RankIdle
    /\ ResampleIdle
    /\ \E closes \in CloseSeries :
          \/ setup_call = [NoSetup EXCEPT !.op = "call", !.kind = "golden_cross",
                                          !.closes = closes]
          \/ \E setup \in ThresholdSetups :
                setup_call = [op |-> "call", kind |-> "indicator_threshold",
                              closes |-> closes, setup |-> setup]
    /\ setup_df = <<>>

\* GoldenCrossStrategy().setup(df) on a frame prepared by calculate_all_indicators.
CallGoldenCrossSetup ==
    /\ setup_call.op = "call"
    /\ setup_call.kind = "golden_cross"
    /\ setup_df' = <<GoldenCrossSetup(setup_call.closes, FastPeriod, SlowPeriod)>>
    /\ setup_call' = [setup_call EXCEPT !.op = "setup"]
    /\ UNCHANGED <<btvars, alvars, stvars, scvars, rkvars, rsvars>>

\* CompositeStrategy._setup_indicator_threshold(setup, df)
CallSetupIndicatorThreshold ==
    /\ setup_call.op = "call"
    /\ setup_call.kind = "indicator_threshold"
    /\ setup_df' = <<SetupIndicatorThreshold(setup_call.setup, setup_call.closes)>>
    /\ setup_call' = [setup_call EXCEPT !.op = "setup"]
    /\ UNCHANGED <<btvars, alvars, stvars, scvars, rkvars, rsvars>>

NextSetup == CallGoldenCrossSetup \/ CallSetupIndicatorThreshold

SpecSetup == InitSetup /\ [][NextSetup]_vars

SetupDone == setup_call.op = "setup"

\* The longest of the periods of the averages the setup compares.
ComparedPeriod ==
    IF setup_call.kind = "golden_cross" THEN SlowPeriod
    ELSE IF setup_call.setup.operator \in {"CROSS_ABOVE", "CROSS_BELOW"}
            /\ setup_call.setup.indicator2 # <<>>
            /\ setup_call.setup.indicator2[1] > setup_call.setup.period
    THEN setup_call.setup.indicator2[1]
    ELSE setup_call.setup.period

\* A row on which an average the setup compares is not yet available.
WarmUpRow(k) == k < ComparedPeriod

\* C21: after a setup step, setup_valid is true or false on every row, never null,
\* and it is false on the warm-up rows, where an average it compares is not yet
\* available.
C21_SetupValidDefined ==
    SetupDone =>
        \A k \in 1..Len(setup_df[1]) :
            /\ setup_df[1][k] \in {"true", "false"}
            /\ WarmUpRow(k) => setup_df[1][k] = "false"

\* What the code does instead: the Golden Cross setup, and a threshold setup with a
\* plain comparison, are null on exactly the warm-up rows and boolean after them; a
\* crossing setup is never true on a warm-up row, and is boolean from the second
\* row after them.
C21_NullOnWarmUp ==
    SetupDone =>
        \A k \in 1..Len(setup_df[1]) :
            /\ WarmUpRow(k) => setup_df[1][k] # "true"
            /\ (setup_call.kind = "golden_cross"
                \/ setup_call.setup.operator \notin {"CROSS_ABOVE", "CROSS_BELOW"})
               => (WarmUpRow(k) <=> setup_df[1][k] = "null")
            /\ k > ComparedPeriod => setup_df[1][k] \in {"true", "false"}

\* A Golden Cross setup ran on a frame longer than the slow period.
C21_Witness ==
    /\ SetupDone
    /\ setup_call.kind = "golden_cross"
    /\ Len(setup_call.closes) > SlowPeriod
    /\ setup_df[1][1] = "null"
    /\ setup_df[1][Len(setup_df[1])] = "true"

Init == InitBacktest
Next == NextBacktest
Spec == Init /\ [][Next]_vars

====
